---- MODULE Spec2Model ----
(***************************************************************************)
(* A model of BEE2.4's editoritems parser and writer (src/src/editoritems.py). *)
(*                                                                         *)
(* Text is modelled as a sequence of tokens, as the srctools Tokenizer     *)
(* hands them to the parser.  A string is a sequence of whitespace         *)
(* separated words; a word is a name (with its folded spelling, its        *)
(* letter case, an optional bee2_ prefix and an optional file suffix) or   *)
(* an integer literal.  Conversions (casefold, upper, int, split,          *)
(* with_suffix, formatting) work on that structure.                        *)
(***************************************************************************)
EXTENDS Integers, Sequences, FiniteSets, TLC

----------------------------------------------------------------------------
(* Strings *)

\* Letter case of a name: all lower, all upper, or mixed.
LOWER == "lower"
UPPER == "upper"
MIXED == "mixed"

\* A name word.
Name(s, c) == [k |-> "name", s |-> s, n |-> 0, c |-> c, p |-> FALSE, x |-> ""]
\* An integer literal word.
IntWord(n) == [k |-> "int", s |-> "", n |-> n, c |-> LOWER, p |-> FALSE, x |-> ""]
\* A one-word string holding a name in the given case.
Str(s, c) == <<Name(s, c)>>
\* The string an f-string writes for an integer.
IntStr(n) == <<IntWord(n)>>
\* The string "x y z" for integers.
Ints3(a, b, c) == <<IntWord(a), IntWord(b), IntWord(c)>>
\* A file name: a name word with a suffix.
File(s, x) == <<[k |-> "name", s |-> s, n |-> 0, c |-> LOWER, p |-> FALSE, x |-> x]>>
EmptyStr == <<>>

\* str.casefold() / str.upper(), word by word.
casefold(str) == [i \in DOMAIN str |-> [str[i] EXCEPT !.c = LOWER]]
upper(str) == [i \in DOMAIN str |-> [str[i] EXCEPT !.c = UPPER]]
\* str.split(): the words.
split(str) == [i \in DOMAIN str |-> <<str[i]>>]

\* int(str): defined when the string is one integer literal.
IsInt(str) == Len(str) = 1 /\ str[1].k = "int"
IntOf(str) == str[1].n

\* srctools.conv_int(val, default=0): the default when int() fails.
conv_int(str) == IF IsInt(str) THEN IntOf(str) ELSE 0

\* srctools.conv_bool(val, default): looked up by casefolded text.
conv_bool(str, default) ==
    IF IsInt(str) /\ IntOf(str) \in {0, 1} THEN IntOf(str) = 1
    ELSE IF Len(str) = 1 /\ str[1].k = "name" /\ ~str[1].p /\ str[1].x = ""
            /\ str[1].s \in {"true", "yes"} THEN TRUE
    ELSE IF Len(str) = 1 /\ str[1].k = "name" /\ ~str[1].p /\ str[1].x = ""
            /\ str[1].s \in {"false", "no"} THEN FALSE
    ELSE default

----------------------------------------------------------------------------
(* Tokens *)

Token_STRING == "STRING"
Token_BRACE_OPEN == "BRACE_OPEN"
Token_BRACE_CLOSE == "BRACE_CLOSE"
Token_NEWLINE == "NEWLINE"
Token_EOF == "EOF"

S(str) == [t |-> Token_STRING, v |-> str]
\* A key as the writer spells it (mixed case).
K(s) == S(Str(s, MIXED))
LB == [t |-> Token_BRACE_OPEN, v |-> EmptyStr]
RB == [t |-> Token_BRACE_CLOSE, v |-> EmptyStr]
NL == [t |-> Token_NEWLINE, v |-> EmptyStr]
EOFToken == [t |-> Token_EOF, v |-> EmptyStr]

\* The token after `pos` consumed ones; EOF for ever once the stream ends.
TokAt(toks, pos) == IF pos < Len(toks) THEN toks[pos + 1] ELSE EOFToken
\* The number of tokens consumed after reading the token at `pos`.
Advance(toks, pos) == IF pos < Len(toks) THEN pos + 1 ELSE pos

----------------------------------------------------------------------------
(* Results of a parse function: the tokens consumed, the exception raised *)
(* ("" when none) with its message, the value built, and the warnings      *)
(* logged so far.                                                          *)

TokenizerError == "TokenizerError"

Ok(pos, v, log) == [pos |-> pos, exc |-> "", msg |-> "", v |-> v, log |-> log]
Raise(exc, msg, pos, v, log) == [pos |-> pos, exc |-> exc, msg |-> msg, v |-> v, log |-> log]
\* tok.error(...): a TokenizerError at the current position.
error(msg, r) == [r EXCEPT !.exc = TokenizerError, !.msg = msg]
Failed(r) == r.exc # ""

At(r, pos) == [r EXCEPT !.pos = pos]
WithV(r, v) == [r EXCEPT !.v = v]

----------------------------------------------------------------------------
(* The tokenizer's operations the parser uses. *)

\* The position of the first token at or after `pos` that is no newline.
RECURSIVE SkipNewlines(_, _)
SkipNewlines(toks, pos) ==
    IF TokAt(toks, pos).t = Token_NEWLINE THEN SkipNewlines(toks, pos + 1) ELSE pos

\* next(tok.skipping_newlines()): the next token that is no newline (the
\* EOF token at the end of the stream), consumed.
skipping_newlines(toks, pos) ==
    LET p == SkipNewlines(toks, pos) IN
    [pos |-> Advance(toks, p), t |-> TokAt(toks, p).t, v |-> TokAt(toks, p).v]

\* tok.expect(token): skips newlines, consumes one token; ok when it is of
\* the kind asked for (the caller raises otherwise).
expect(toks, pos, token) ==
    LET n == skipping_newlines(toks, pos) IN
    [pos |-> n.pos, ok |-> n.t = token, v |-> n.v]

\* The error expect() raises.
ExpectError(r, e) == error("Unexpected token", At(r, e.pos))

----------------------------------------------------------------------------
(* Enumerated vocabulary.  A member is named by its canonical Python name; *)
(* each table gives a member's value as the string the file holds.         *)

\* ItemClass: member -> ID (cls.id).
ItemClass ==
    [UNCLASSED |-> Str("itembase", MIXED),
     FLOOR_BUTTON |-> Str("itembuttonfloor", MIXED),
     PEDESTAL_BUTTON |-> Str("itempedestalbutton", MIXED),
     PANEL_STAIR |-> Str("itemstairs", MIXED),
     PANEL_FLIP |-> Str("itempanelflip", MIXED),
     PANEL_ANGLED |-> Str("itemangledpanel", MIXED),
     PISTON_PLATFORM |-> Str("itempistonplatform", MIXED),
     TRACK_PLATFORM |-> Str("itemrailplatform", MIXED),
     CUBE |-> Str("itemcube", MIXED),
     GEL |-> Str("itempaintsplat", MIXED),
     FAITH_PLATE |-> Str("itemcatapult", MIXED),
     CUBE_DROPPER |-> Str("itemcubedropper", MIXED),
     GEL_DROPPER |-> Str("itempaintdropper", MIXED),
     FAITH_TARGET |-> Str("itemcatapulttarget", MIXED),
     GLASS |-> Str("itembarrier", MIXED),
     TURRET |-> Str("itemturret", MIXED),
     LIGHT_STRIP |-> Str("itemlightstrip", MIXED),
     GOO |-> Str("itemgoo", MIXED),
     LASER_EMITTER |-> Str("itemlaseremitter", MIXED),
     FUNNEL |-> Str("itemtbeam", MIXED),
     FIZZLER |-> Str("itembarrierhazard", MIXED),
     LIGHT_BRIDGE |-> Str("itemlightbridge", MIXED),
     HANDLE_FIZZLER |-> Str("itembarrierhazardextent", MIXED),
     HANDLE_GLASS |-> Str("itembarrierextent", MIXED),
     HANDLE_PISTON_PLATFORM |-> Str("itempistonplatformextent", MIXED),
     HANDLE_TRACK_PLATFORM |-> Str("itemrailplatformextent", MIXED),
     DOOR_ENTRY_SP |-> Str("itementrancedoor", MIXED),
     DOOR_ENTRY_COOP |-> Str("itemcoopentrancedoor", MIXED),
     DOOR_EXIT_SP |-> Str("itemexitdoor", MIXED),
     DOOR_EXIT_COOP |-> Str("itemcoopexitdoor", MIXED)]

RenderableType ==
    [ERROR |-> Str("errorstate", MIXED),
     CONN |-> Str("connectionheartsolid", MIXED)]

Handle ==
    [NONE |-> Str("handle_none", UPPER),
     QUAD |-> Str("handle_4_directions", UPPER),
     CENT_OFF |-> Str("handle_5_positions", UPPER),
     DUAL_OFF |-> Str("handle_6_positions", UPPER),
     QUAD_OFF |-> Str("handle_8_positions", UPPER),
     FREE_ROT |-> Str("handle_36_directions", UPPER),
     FAITH |-> Str("handle_catapult", UPPER)]

\* Surface: member -> value, and the member each (folded) name or alias
\* denotes.
Surface ==
    [WALL |-> Str("wall", UPPER),
     FLOOR |-> Str("floor", UPPER),
     CEIL |-> Str("ceiling", UPPER)]
SurfaceNames ==
    [wall |-> "WALL", walls |-> "WALL", floor |-> "FLOOR",
     ceil |-> "CEIL", ceiling |-> "CEIL"]

DesiredFacing ==
    [NONE |-> Str("desires_anything", UPPER),
     POSX |-> Str("desires_up", UPPER),
     NEGX |-> Str("desires_down", UPPER),
     HORIZ |-> Str("desires_horizontal", UPPER)]

FaceType ==
    [NORMAL |-> Str("grid_default", MIXED),
     HALF_VERT |-> Str("2x1", LOWER),
     LRG |-> Str("1x1", LOWER),
     MED |-> Str("2x2", LOWER),
     SML |-> Str("4x4", LOWER),
     CHECK |-> Str("4x4_checkered", LOWER)]

Sound ==
    [SELECT |-> Str("sound_selected", UPPER),
     DESELECT |-> Str("sound_deselected", UPPER),
     DELETE |-> Str("sound_deleted", UPPER),
     CREATE |-> Str("sound_created", UPPER),
     PROPS_OPEN |-> Str("sound_editing_activate", UPPER),
     PROPS_CLOSE |-> Str("sound_editing_deactivate", UPPER)]
\* Definition order of the Sound members (iteration order of the Enum).
SoundOrder == <<"SELECT", "DESELECT", "DELETE", "CREATE", "PROPS_OPEN", "PROPS_CLOSE">>

Anim ==
    [IDLE |-> Str("anim_idle", UPPER),
     EDIT_START |-> Str("anim_editing_activate", UPPER),
     EDIT_STOP |-> Str("anim_editing_deactivate", UPPER),
     CUBE_FALL |-> Str("anim_falling_idle", UPPER),
     CUBE_FALL_EDIT_START |-> Str("anim_falling_editing_activate", UPPER),
     CUBE_FALL_EDIT_STOP |-> Str("anim_falling_editing_deactivate", UPPER),
     CUBE_FLAT2FALL |-> Str("anim_ground_to_falling", UPPER),
     CUBE_FALL2FLAT |-> Str("anim_falling_to_ground", UPPER),
     CUBE_FLAT2FALL_EDIT |-> Str("anim_ground_to_falling_editing", UPPER),
     CUBE_FALL2FLAT_EDIT |-> Str("anim_falling_to_ground_editing", UPPER),
     CDROP_ENABLE |-> Str("anim_reappear", UPPER),
     CDROP_DISABLE |-> Str("anim_disappear", UPPER),
     HEART_IDLE |-> Str("anim_icon_heart_happy_idle", UPPER),
     HEART_CONN_MADE |-> Str("anim_icon_heart_success", UPPER),
     HEART_CONN_BROKE |-> Str("anim_icon_heart_break", UPPER),
     BAD_PLACE_IDLE |-> Str("anim_icon_idle", UPPER),
     BAD_PLACE_SHOW |-> Str("anim_icon_show", UPPER),
     BAD_PLACE_HIDE |-> Str("anim_icon_hide", UPPER)]

\* Enum(value): the member whose value is exactly the string; "" when none
\* (the constructor raises ValueError).
ByValue(enum, str) ==
    IF \E m \in DOMAIN enum : enum[m] = str
    THEN CHOOSE m \in DOMAIN enum : enum[m] = str
    ELSE ""
\* A dict keyed by the casefolded value.
ByFoldedValue(enum, str) ==
    IF \E m \in DOMAIN enum : casefold(enum[m]) = casefold(str)
    THEN CHOOSE m \in DOMAIN enum : casefold(enum[m]) = casefold(str)
    ELSE ""

CLASS_BY_NAME(str) == ByFoldedValue(ItemClass, str)
ITEM_CLASSES(str) == ByFoldedValue(ItemClass, str)
FACE_TYPES(str) == ByFoldedValue(FaceType, str)
Renderable_types(str) == ByFoldedValue(RenderableType, str)

\* Enum[name]: lookup by the exact (upper case) member name, aliases
\* included; "" when there is none (KeyError).
ByName(names, str) ==
    IF \E nm \in DOMAIN names : str = Str(nm, UPPER)
    THEN names[CHOOSE nm \in DOMAIN names : str = Str(nm, UPPER)]
    ELSE ""

----------------------------------------------------------------------------
(* Dicts keep insertion order: a sequence of <<key, value>> pairs with     *)
(* distinct keys.                                                          *)

DictKeys(d) == {d[i][1] : i \in DOMAIN d}
DictHas(d, k) == k \in DictKeys(d)
DictGet(d, k) == d[CHOOSE i \in DOMAIN d : d[i][1] = k][2]
\* d[k] = v: in place when the key is there, else appended.
DictSet(d, k, v) ==
    IF DictHas(d, k)
    THEN [i \in DOMAIN d |-> IF d[i][1] = k THEN <<k, v>> ELSE d[i]]
    ELSE Append(d, <<k, v>>)
\* d1 == d2: equal as mappings, whatever the order.
DictEq(d1, d2) == {d1[i] : i \in DOMAIN d1} = {d2[i] : i \in DOMAIN d2}
DictValues(d) == [i \in DOMAIN d |-> d[i][2]]

----------------------------------------------------------------------------
(* Value types *)

\* FSPath(str): the empty string is the path '.', which is FSPath().
FSPath(str) == str
EmptyPath == EmptyStr
\* path.suffix.casefold(): a suffix is in lower case, but for MDL.
SuffixFold(path) ==
    IF Len(path) = 0 THEN ""
    ELSE IF path[Len(path)].x = "MDL" THEN "mdl"
    ELSE path[Len(path)].x
\* path.with_suffix('.' + x)
with_suffix(path, x) ==
    [i \in DOMAIN path |-> IF i = Len(path) THEN [path[i] EXCEPT !.x = x] ELSE path[i]]

InstCount(inst, ent_count, brush_count, face_count) ==
    [inst |-> inst, ent_count |-> ent_count, brush_count |-> brush_count,
     face_count |-> face_count]

Coord(x, y, z) == <<x, y, z>>
Vec(x, y, z) == <<x, y, z>>
\* str(Vec) and the "{x} {y} {z}" of a Coord.
VecStr(v) == Ints3(v[1], v[2], v[3])

AllInts(str) == \A i \in DOMAIN str : str[i].k = "int"

\* Coord.parse(value, error_func): ok, or the message of the error raised.
Coord_parse(value) ==
    LET parts == split(value) IN
    IF Len(parts) # 3 THEN [ok |-> FALSE, msg |-> "Incorrect number of points for a coordinate!", v |-> Coord(0, 0, 0)]
    ELSE IF ~AllInts(value) THEN [ok |-> FALSE, msg |-> "Invalid coordinate value", v |-> Coord(0, 0, 0)]
    ELSE [ok |-> TRUE, msg |-> "", v |-> Coord(IntOf(parts[1]), IntOf(parts[2]), IntOf(parts[3]))]

\* srctools Vec.from_str(val): three numbers, or the default (0, 0, 0).
Vec_from_str(value) ==
    IF Len(value) = 3 /\ AllInts(value)
    THEN Vec(value[1].n, value[2].n, value[3].n)
    ELSE Vec(0, 0, 0)

EmbedFace(center, size, type) == [center |-> center, size |-> size, type |-> type]
Overlay(material, center, size, rotation) ==
    [material |-> material, center |-> center, size |-> size, rotation |-> rotation]
AntlinePoint(pos, sign_off, priority, group) ==
    [pos |-> pos, sign_off |-> sign_off, priority |-> priority, group |-> group]
\* Optional[int]: None is the empty sequence, a value a one-element one.
None == <<>>
Some(v) == <<v>>

\* The defaults, if this is unset.
DEFAULT_ANIMS == << <<"IDLE", 0>>, <<"EDIT_START", 1>>, <<"EDIT_STOP", 2>> >>
DEFAULT_SOUNDS ==
    << <<"SELECT", EmptyStr>>,
       <<"DESELECT", EmptyStr>>,
       <<"PROPS_OPEN", Str("p2editor.expandother", MIXED)>>,
       <<"PROPS_CLOSE", Str("p2editor.collapseother", MIXED)>>,
       <<"CREATE", Str("p2editor.placeother", MIXED)>>,
       <<"DELETE", Str("p2editor.removeother", MIXED)>> >>

\* ConnSide: member -> value, in definition order.
ConnSide ==
    [LEFT |-> Coord(1, 0, 0), RIGHT |-> Coord(-1, 0, 0),
     UP |-> Coord(0, 1, 0), DOWN |-> Coord(0, -1, 0)]
ConnSideOrder == <<"LEFT", "RIGHT", "UP", "DOWN">>
ConnSideNames == [left |-> "LEFT", right |-> "RIGHT", up |-> "UP", down |-> "DOWN"]

\* A faulty ConnSide.parse, which does not ask the side to be flat; the
\* property of C17 rejects it.
ConnSide_parse_any_z(value) ==
    LET parts == split(value) IN
    IF ByName(ConnSideNames, upper(value)) # ""
    THEN [ok |-> TRUE, msg |-> "", v |-> ByName(ConnSideNames, upper(value))]
    ELSE IF Len(parts) # 3 THEN [ok |-> FALSE, msg |-> "Incorrect number of points for a direction!", v |-> ""]
    ELSE IF ~AllInts(value) THEN [ok |-> FALSE, msg |-> "Invalid connection side!", v |-> ""]
    ELSE LET x == value[1].n
             y == value[2].n
         IN IF x = 0 /\ y = 1 THEN [ok |-> TRUE, msg |-> "", v |-> "UP"]
            ELSE IF x = 0 /\ y = -1 THEN [ok |-> TRUE, msg |-> "", v |-> "DOWN"]
            ELSE IF x # 0 /\ y = 0 /\ x = 1 THEN [ok |-> TRUE, msg |-> "", v |-> "LEFT"]
            ELSE IF x # 0 /\ y = 0 /\ x = -1 THEN [ok |-> TRUE, msg |-> "", v |-> "RIGHT"]
            ELSE [ok |-> FALSE, msg |-> "Unknown connection side", v |-> ""]

\* ConnSide.parse(value, error_func)
ConnSide_parse(value) ==
    LET parts == split(value) IN
    IF ByName(ConnSideNames, upper(value)) # ""
    THEN [ok |-> TRUE, msg |-> "", v |-> ByName(ConnSideNames, upper(value))]
    ELSE IF Len(parts) # 3 THEN [ok |-> FALSE, msg |-> "Incorrect number of points for a direction!", v |-> ""]
    ELSE IF ~AllInts(value) THEN [ok |-> FALSE, msg |-> "Invalid connection side!", v |-> ""]
    ELSE LET x == value[1].n
             y == value[2].n
             z == value[3].n
         IN IF z # 0 THEN [ok |-> FALSE, msg |-> "Connection side must be flat!", v |-> ""]
            ELSE IF x = 0 /\ y = 1 THEN [ok |-> TRUE, msg |-> "", v |-> "UP"]
            ELSE IF x = 0 /\ y = -1 THEN [ok |-> TRUE, msg |-> "", v |-> "DOWN"]
            ELSE IF x # 0 /\ y = 0 /\ x = 1 THEN [ok |-> TRUE, msg |-> "", v |-> "LEFT"]
            ELSE IF x # 0 /\ y = 0 /\ x = -1 THEN [ok |-> TRUE, msg |-> "", v |-> "RIGHT"]
            ELSE [ok |-> FALSE, msg |-> "Unknown connection side", v |-> ""]

\* SubType(name, models, sounds, anims, pal_name, pal_pos, pal_icon)
SubType(name, models, sounds, anims, pal_name, pal_pos, pal_icon) ==
    [name |-> name, models |-> models, sounds |-> sounds, anims |-> anims,
     pal_name |-> pal_name, pal_pos |-> pal_pos, pal_icon |-> pal_icon]

\* Renderable(typ, model, animations)
Renderable(typ, model, animations) ==
    [type |-> typ, model |-> model, animations |-> animations]

\* A faulty Item, whose offset starts at the origin; the property of C13
\* rejects it.
Item_origin(item_id, cls) ==
    [animations |-> <<>>, id |-> item_id, cls |-> cls, subtype_prop |-> None,
     subtypes |-> <<>>, properties |-> <<>>, handle |-> "NONE", facing |-> "NONE",
     invalid_surf |-> {}, anchor_barriers |-> FALSE, anchor_goo |-> FALSE,
     occupies_voxel |-> TRUE, copiable |-> TRUE, deletable |-> TRUE,
     pseduo_handle |-> FALSE, pseudo_handle |-> None,
     offset |-> Vec(0, 0, 0), targetname |-> EmptyStr, instances |-> <<>>,
     cust_instances |-> <<>>, antline_points |-> [side \in DOMAIN ConnSide |-> <<>>],
     embed_voxels |-> {}, embed_faces |-> <<>>, overlays |-> <<>>]

\* Item(item_id, cls): the other arguments at their defaults.  The attribute
\* pseudo_handle does not exist until it is assigned (empty sequence).
Item(item_id, cls) ==
    [animations |-> <<>>,
     id |-> item_id,
     cls |-> cls,
     subtype_prop |-> None,
     subtypes |-> <<>>,
     properties |-> <<>>,
     handle |-> "NONE",
     facing |-> "NONE",
     invalid_surf |-> {},
     anchor_barriers |-> FALSE,
     anchor_goo |-> FALSE,
     occupies_voxel |-> TRUE,
     copiable |-> TRUE,
     deletable |-> TRUE,
     pseduo_handle |-> FALSE,
     pseudo_handle |-> None,
     offset |-> Vec(64, 64, 64),
     targetname |-> EmptyStr,
     instances |-> <<>>,
     cust_instances |-> <<>>,
     antline_points |-> [side \in DOMAIN ConnSide |-> <<>>],
     embed_voxels |-> {},
     embed_faces |-> <<>>,
     overlays |-> <<>>]

----------------------------------------------------------------------------
(* The parser.  Each parse function takes the token stream and a result    *)
(* record r (the position reached, the value being built, the log) and     *)
(* returns the result record after it ran.  A `for key in tok.block(..)`   *)
(* loop is block(name, ..), which runs the loop body BlockBody(name, ..)   *)
(* once per key.                                                           *)

RECURSIVE block(_, _, _, _)

\* Anim.parse_block, the loop body.  r.v: the anims dict.
Anim_parse_block_key(toks, r, anim_name) ==
    LET anim == ByValue(Anim, anim_name)
        e == expect(toks, r.pos, Token_STRING)
    IN IF anim = "" THEN error("Unknown animation", r)
       ELSE IF ~e.ok THEN ExpectError(r, e)
       ELSE Ok(e.pos, DictSet(r.v, anim, conv_int(e.v)), r.log)

\* Anim.parse_block(anims, tok)
Anim_parse_block(anims, toks, r) == block("Animations", toks, WithV(r, anims), TRUE)

\* Renderable.parse, the loop body.  r.v: [kind, model, anims].
Renderable_parse_key(toks, r, key) ==
    LET e == expect(toks, r.pos, Token_STRING)
        a == Anim_parse_block(r.v.anims, toks, r)
    IN IF casefold(key) = Str("type", LOWER)
       THEN IF ~e.ok THEN ExpectError(r, e)
            ELSE IF Renderable_types(e.v) = "" THEN error("Unknown Renderable", At(r, e.pos))
            ELSE Ok(e.pos, [r.v EXCEPT !.kind = Renderable_types(e.v)], r.log)
       ELSE IF casefold(key) = Str("animations", LOWER)
       THEN IF Failed(a) THEN a ELSE WithV(a, [r.v EXCEPT !.anims = a.v])
       ELSE IF casefold(key) = Str("model", LOWER)
       THEN IF ~e.ok THEN ExpectError(r, e)
            ELSE Ok(e.pos, [r.v EXCEPT !.model = e.v], r.log)
       ELSE error("Unknown renderable option", r)

\* Renderable.parse(tok)
Renderable_parse(toks, r) ==
    LET b == block("Renderable Item", toks,
                   WithV(r, [kind |-> "", model |-> EmptyStr, anims |-> <<>>]), TRUE)
    IN IF Failed(b) THEN b
       ELSE IF b.v.kind = "" THEN error("No type specified for Renderable!", b)
       ELSE WithV(b, Renderable(b.v.kind, b.v.model, b.v.anims))

\* SubType.parse: the body of the Model block.  r.v: model_name (Optional).
SubType_parse_model_key(toks, r, subkey) ==
    LET e == expect(toks, r.pos, Token_STRING) IN
    IF casefold(subkey) = Str("modelname", LOWER)
    THEN IF ~e.ok THEN ExpectError(r, e) ELSE Ok(e.pos, Some(FSPath(e.v)), r.log)
    ELSE IF casefold(subkey) = Str("texturename", LOWER)
    THEN IF ~e.ok THEN ExpectError(r, e) ELSE At(r, e.pos)
    ELSE error("Unknown model option", r)

\* SubType.parse: the suffix of a model is swapped to '.mdl'.
\* (with_suffix raises ValueError on a path with an empty name.)
SubType_parse_model_suffix(r, model_name, subtype) ==
    IF SuffixFold(model_name) # "mdl"
    THEN IF model_name = EmptyPath
         THEN Raise("ValueError", "PurePosixPath('.') has an empty name", r.pos, subtype, r.log)
         ELSE WithV(r, [subtype EXCEPT !.models = Append(@, with_suffix(model_name, "mdl"))])
    ELSE WithV(r, [subtype EXCEPT !.models = Append(@, model_name)])

\* SubType.parse: the 'model' key.  r.v: the subtype.
SubType_parse_model(toks, r) ==
    LET n == skipping_newlines(toks, r.pos)
        b == block("Model", toks, WithV(At(r, n.pos), None), FALSE)
    IN IF n.t = Token_STRING
       THEN SubType_parse_model_suffix(At(r, n.pos), FSPath(n.v), r.v)
       ELSE IF n.t = Token_BRACE_OPEN
       THEN IF Failed(b) THEN b
            ELSE IF b.v = None THEN error("No model name specified!", b)
            ELSE SubType_parse_model_suffix(b, b.v[1], r.v)
       ELSE error("Unexpected token", At(r, n.pos))

\* SubType.parse: the body of the Palette block.  r.v: the subtype.
SubType_parse_palette_key(toks, r, subkey) ==
    LET e == expect(toks, r.pos, Token_STRING)
        points == split(e.v)
    IN IF ~e.ok THEN
            IF casefold(subkey) \in {Str("tooltip", LOWER), Str("image", LOWER), Str("position", LOWER)}
            THEN ExpectError(r, e)
            ELSE error("Unknown palette option", r)
       ELSE IF casefold(subkey) = Str("tooltip", LOWER)
       THEN Ok(e.pos, [r.v EXCEPT !.pal_name = e.v], r.log)
       ELSE IF casefold(subkey) = Str("image", LOWER)
       THEN Ok(e.pos, [r.v EXCEPT !.pal_icon = Some(FSPath(e.v))], r.log)
       ELSE IF casefold(subkey) = Str("position", LOWER)
       THEN IF Len(points) \in {2, 3}
            THEN IF IsInt(points[1]) /\ IsInt(points[2])
                 THEN Ok(e.pos, [r.v EXCEPT !.pal_pos = Some(<<IntOf(points[1]), IntOf(points[2])>>)], r.log)
                 ELSE error("Invalid position value!", At(r, e.pos))
            ELSE error("Incorrect number of points in position", At(r, e.pos))
       ELSE error("Unknown palette option", r)

\* SubType.parse: the body of the Sounds block.  r.v: the subtype.
SubType_parse_sounds_key(toks, r, sound_kind) ==
    LET sound == ByValue(Sound, upper(sound_kind))
        e == expect(toks, r.pos, Token_STRING)
    IN IF sound = "" THEN error("Unknown sound type", r)
       ELSE IF ~e.ok THEN ExpectError(r, e)
       ELSE Ok(e.pos, [r.v EXCEPT !.sounds = DictSet(@, sound, e.v)], r.log)

\* SubType.parse: an unrecognised key.
SubType_parse_unknown(toks, r, key) == error("Unknown subtype option", r)

\* SubType.parse, the loop body.  r.v: the subtype.
SubType_parse_key(toks, r, key) ==
    LET folded_key == casefold(key)
        e == expect(toks, r.pos, Token_STRING)
        a == Anim_parse_block(r.v.anims, toks, r)
    IN IF folded_key = Str("name", LOWER)
       THEN IF ~e.ok THEN ExpectError(r, e) ELSE Ok(e.pos, [r.v EXCEPT !.name = e.v], r.log)
       ELSE IF folded_key = Str("model", LOWER) THEN SubType_parse_model(toks, r)
       ELSE IF folded_key = Str("palette", LOWER) THEN block("Palette", toks, r, TRUE)
       ELSE IF folded_key = Str("sounds", LOWER) THEN block("Sounds", toks, r, TRUE)
       ELSE IF folded_key = Str("animations", LOWER)
       THEN IF Failed(a) THEN a ELSE WithV(a, [r.v EXCEPT !.anims = a.v])
       ELSE SubType_parse_unknown(toks, r, key)

\* SubType.parse(tok)
SubType_parse(toks, r) ==
    block("Subtype", toks,
          WithV(r, SubType(EmptyStr, <<>>, DEFAULT_SOUNDS, <<>>, EmptyStr, None, None)), TRUE)

----------------------------------------------------------------------------
(* The property registry (editoritems_props): PROP_TYPES maps a casefolded *)
(* name to a property type; constructing a property parses its default.    *)

PROP_TYPES ==
    [connectioncount |-> [id |-> Str("connectioncount", MIXED), kind |-> "int"],
     startenabled |-> [id |-> Str("startenabled", MIXED), kind |-> "bool"]]

\* PROP_TYPES[name]: the key of the registry, "" when absent (KeyError).
PropTypeKey(str) ==
    IF \E nm \in DOMAIN PROP_TYPES : str = Str(nm, LOWER)
    THEN CHOOSE nm \in DOMAIN PROP_TYPES : str = Str(nm, LOWER)
    ELSE ""

\* prop_type(default, index, user_default): ok is FALSE for a ValueError.
ItemProp(prop_type, default, index, user_default) ==
    [ok |-> PROP_TYPES[prop_type].kind = "bool" \/ IsInt(default),
     v |-> [id |-> PROP_TYPES[prop_type].id,
            type |-> prop_type,
            default |-> IF PROP_TYPES[prop_type].kind = "bool"
                        THEN (IF conv_bool(default, FALSE) THEN 1 ELSE 0)
                        ELSE conv_int(default),
            index |-> index,
            user_default |-> user_default]]

\* prop.export(): the default as a string.
ItemProp_export(prop) == IntStr(prop.default)

----------------------------------------------------------------------------
(* Item: the Editor block *)

\* A table in which CanAnchorOnGoo has an attribute of its own; the property
\* of C21 rejects it.
BOOL_ATTRS_apart ==
    [cananchoronbarriers |-> "anchor_barriers",
     cananchorongoo |-> "anchor_goo",
     occupiesvoxel |-> "occupies_voxel",
     copyable |-> "copiable",
     deletable |-> "deletable",
     pseudohandle |-> "pseudo_handle"]

\* Boolean option in editor -> Item attribute.
BOOL_ATTRS ==
    [cananchoronbarriers |-> "anchor_barriers",
     cananchorongoo |-> "anchor_barriers",
     occupiesvoxel |-> "occupies_voxel",
     copyable |-> "copiable",
     deletable |-> "deletable",
     pseudohandle |-> "pseudo_handle"]

\* _BOOL_ATTRS[folded_key]: "" when absent (KeyError).
BoolAttr(folded_key) ==
    IF \E nm \in DOMAIN BOOL_ATTRS : folded_key = Str(nm, LOWER)
    THEN BOOL_ATTRS[CHOOSE nm \in DOMAIN BOOL_ATTRS : folded_key = Str(nm, LOWER)]
    ELSE ""

\* setattr(item, attr, value) for the attributes of _BOOL_ATTRS.
setattr(item, attr, value) ==
    CASE attr = "anchor_barriers" -> [item EXCEPT !.anchor_barriers = value]
      [] attr = "anchor_goo" -> [item EXCEPT !.anchor_goo = value]
      [] attr = "occupies_voxel" -> [item EXCEPT !.occupies_voxel = value]
      [] attr = "copiable" -> [item EXCEPT !.copiable = value]
      [] attr = "deletable" -> [item EXCEPT !.deletable = value]
      [] attr = "pseudo_handle" -> [item EXCEPT !.pseudo_handle = Some(value)]

\* _parse_editor_block: InvalidSurface, word by word.  r.v: the item.
RECURSIVE parse_invalid_surface(_, _, _)
parse_invalid_surface(words, i, r) ==
    IF i > Len(words) THEN r
    ELSE IF ByName(SurfaceNames, upper(words[i])) = "" THEN error("Unknown surface type", r)
    ELSE parse_invalid_surface(words, i + 1,
            WithV(r, [r.v EXCEPT !.invalid_surf = @ \cup {ByName(SurfaceNames, upper(words[i]))}]))

\* _parse_editor_block: a key that is no option above: a boolean attribute,
\* or an error.
parse_editor_block_other(toks, r, key) ==
    LET attr == BoolAttr(casefold(key))
        e == expect(toks, r.pos, Token_STRING)
    IN IF attr = "" THEN error("Unknown editor option", r)
       ELSE IF ~e.ok THEN ExpectError(r, e)
       ELSE Ok(e.pos, setattr(r.v, attr, conv_bool(e.v, FALSE)), r.log)

\* _parse_editor_block, the loop body.  r.v: the item.
parse_editor_block_key(toks, r, key) ==
    LET folded_key == casefold(key)
        e == expect(toks, r.pos, Token_STRING)
        st == SubType_parse(toks, r)
        a == Anim_parse_block(r.v.animations, toks, r)
    IN IF folded_key = Str("subtype", LOWER)
       THEN IF Failed(st) THEN st ELSE WithV(st, [r.v EXCEPT !.subtypes = Append(@, st.v)])
       ELSE IF folded_key = Str("animations", LOWER)
       THEN IF Failed(a) THEN a ELSE WithV(a, [r.v EXCEPT !.animations = a.v])
       ELSE IF folded_key = Str("movementhandle", LOWER)
       THEN IF ~e.ok THEN ExpectError(r, e)
            ELSE IF ByValue(Handle, upper(e.v)) = "" THEN error("Unknown handle type", At(r, e.pos))
            ELSE Ok(e.pos, [r.v EXCEPT !.handle = ByValue(Handle, upper(e.v))], r.log)
       ELSE IF folded_key = Str("invalidsurface", LOWER)
       THEN IF ~e.ok THEN ExpectError(r, e)
            ELSE parse_invalid_surface(split(e.v), 1, At(r, e.pos))
       ELSE IF folded_key = Str("subtypeproperty", LOWER)
       THEN IF ~e.ok THEN ExpectError(r, e)
            ELSE IF PropTypeKey(casefold(e.v)) = ""
            THEN Raise("KeyError", "PROP_TYPES", e.pos, r.v, r.log)
            ELSE Ok(e.pos, [r.v EXCEPT !.subtype_prop = Some(PropTypeKey(casefold(e.v)))], r.log)
       ELSE IF folded_key = Str("desiredfacing", LOWER)
       THEN IF ~e.ok THEN ExpectError(r, e)
            ELSE IF ByValue(DesiredFacing, upper(e.v)) = "" THEN error("Unknown desired facing", At(r, e.pos))
            ELSE Ok(e.pos, [r.v EXCEPT !.facing = ByValue(DesiredFacing, upper(e.v))], r.log)
       ELSE IF folded_key = Str("rendercolor", LOWER)
       THEN IF ~e.ok THEN ExpectError(r, e) ELSE At(r, e.pos)
       ELSE parse_editor_block_other(toks, r, key)

\* _parse_editor_block(tok)
parse_editor_block(toks, r) == block("Editor", toks, r, TRUE)

----------------------------------------------------------------------------
(* Item: the Properties block *)

\* _parse_properties_block: the body of a property's options block.
\* r.v: [default, index, user_default].
parse_properties_option_key(toks, r, key) ==
    LET prop_value == casefold(key)
        e == expect(toks, r.pos, Token_STRING)
    IN IF prop_value = Str("defaultvalue", LOWER)
       THEN IF ~e.ok THEN ExpectError(r, e) ELSE Ok(e.pos, [r.v EXCEPT !.default = e.v], r.log)
       ELSE IF prop_value = Str("index", LOWER)
       THEN IF ~e.ok THEN ExpectError(r, e) ELSE Ok(e.pos, [r.v EXCEPT !.index = conv_int(e.v)], r.log)
       ELSE IF prop_value = Str("bee2_ignore", LOWER)
       THEN IF ~e.ok THEN ExpectError(r, e)
            ELSE Ok(e.pos, [r.v EXCEPT !.user_default = conv_bool(e.v, r.v.user_default)], r.log)
       ELSE error("Unknown property option", r)

\* _parse_properties_block, the loop body.  r.v: the item.
parse_properties_block_key(toks, r, prop_str) ==
    LET prop_type == PropTypeKey(casefold(prop_str))
        o == block("options", toks,
                   WithV(r, [default |-> EmptyStr, index |-> 0, user_default |-> TRUE]), TRUE)
        prop == ItemProp(prop_type, o.v.default, o.v.index, o.v.user_default)
    IN IF prop_type = "" THEN error("Unknown property", r)
       ELSE IF Failed(o) THEN o
       ELSE IF ~prop.ok THEN error("Default value is not valid for properties!", WithV(o, r.v))
       ELSE WithV(o, [r.v EXCEPT !.properties = DictSet(@, PROP_TYPES[prop_type].id, prop.v)])

\* _parse_properties_block(tok)
parse_properties_block(toks, r) == block("Properties", toks, r, TRUE)

----------------------------------------------------------------------------
(* Item: the Exporting block *)

\* _parse_instance_block: the body of an instance's block.
\* r.v: [inst_file (Optional), ent_count, brush_count, side_count].
parse_instance_block_key(toks, r, block_key) ==
    LET folded_key == casefold(block_key)
        e == expect(toks, r.pos, Token_STRING)
    IN IF folded_key = Str("name", LOWER)
       THEN IF ~e.ok THEN ExpectError(r, e) ELSE Ok(e.pos, [r.v EXCEPT !.inst_file = Some(e.v)], r.log)
       ELSE IF folded_key = Str("entitycount", LOWER)
       THEN IF ~e.ok THEN ExpectError(r, e) ELSE Ok(e.pos, [r.v EXCEPT !.ent_count = conv_int(e.v)], r.log)
       ELSE IF folded_key = Str("brushcount", LOWER)
       THEN IF ~e.ok THEN ExpectError(r, e) ELSE Ok(e.pos, [r.v EXCEPT !.brush_count = conv_int(e.v)], r.log)
       ELSE IF folded_key = Str("brushsidecount", LOWER)
       THEN IF ~e.ok THEN ExpectError(r, e) ELSE Ok(e.pos, [r.v EXCEPT !.side_count = conv_int(e.v)], r.log)
       ELSE error("Unknown instance option", r)

\* _parse_instance_block: add blank spots if the index is past the end.
\* A faulty pad_instances, which adds no placeholder; the property of C6
\* rejects it.
pad_instances_none(instances, inst_ind) == instances

RECURSIVE pad_instances(_, _)
pad_instances(instances, inst_ind) ==
    IF inst_ind > Len(instances)
    THEN pad_instances(Append(instances, InstCount(FSPath(EmptyStr), 0, 0, 0)), inst_ind)
    ELSE instances

\* _parse_instance_block: the instance is stored in its numbered slot
\* (list indices count from 0; a negative one counts from the end, and one
\* outside the list raises IndexError).
store_instance(r, instances, inst_ind, inst) ==
    IF inst_ind = Len(instances)
    THEN WithV(r, [r.v EXCEPT !.instances = Append(instances, inst)])
    ELSE IF inst_ind >= 0 /\ inst_ind < Len(instances)
    THEN WithV(r, [r.v EXCEPT !.instances = [instances EXCEPT ![inst_ind + 1] = inst]])
    ELSE IF inst_ind < 0 /\ inst_ind >= -Len(instances)
    THEN WithV(r, [r.v EXCEPT !.instances = [instances EXCEPT ![Len(instances) + inst_ind + 1] = inst]])
    ELSE Raise("IndexError", "list assignment index out of range", r.pos,
               [r.v EXCEPT !.instances = instances], r.log)

\* A faulty test, which knows the prefix in lower case only; the property of
\* C20 rejects it.
HasBee2Prefix_exact(inst_name) ==
    Len(inst_name) > 0 /\ inst_name[1].k = "name" /\ inst_name[1].p /\ inst_name[1].c = LOWER

\* _parse_instance_block: a custom instance name, its bee2_ prefix removed;
\* without one a warning is logged.
HasBee2Prefix(inst_name) == Len(inst_name) > 0 /\ inst_name[1].k = "name" /\ inst_name[1].p
StripBee2Prefix(inst_name) ==
    [i \in DOMAIN inst_name |-> IF i = 1 THEN [inst_name[i] EXCEPT !.p = FALSE] ELSE inst_name[i]]
PrefixWarning == "Custom instance names should have bee2_ prefix"

\* _parse_instance_block(tok, inst_name).  r.v: the item.
parse_instance_block(toks, r, inst_name) ==
    LET numbered == IsInt(inst_name)
        name == IF ~numbered /\ HasBee2Prefix(inst_name) THEN StripBee2Prefix(inst_name) ELSE inst_name
        log == IF ~numbered /\ ~HasBee2Prefix(inst_name) THEN Append(r.log, PrefixWarning) ELSE r.log
        instances == IF numbered THEN pad_instances(r.v.instances, IntOf(inst_name)) ELSE r.v.instances
        n == skipping_newlines(toks, r.pos)
        b == block("Instances", toks,
                   [r EXCEPT !.pos = n.pos, !.log = log,
                             !.v = [inst_file |-> None, ent_count |-> 0,
                                    brush_count |-> 0, side_count |-> 0]], FALSE)
        inst == IF n.t = Token_BRACE_OPEN
                THEN InstCount(FSPath(b.v.inst_file[1]), b.v.ent_count, b.v.brush_count, b.v.side_count)
                ELSE InstCount(FSPath(n.v), 0, 0, 0)
        after == IF n.t = Token_BRACE_OPEN THEN WithV(b, r.v) ELSE [r EXCEPT !.pos = n.pos, !.log = log]
    IN IF n.t = Token_BRACE_OPEN /\ Failed(b) THEN b
       ELSE IF n.t = Token_BRACE_OPEN /\ b.v.inst_file = None
       THEN error("No instance filename provided!", b)
       ELSE IF n.t \notin {Token_BRACE_OPEN, Token_STRING}
       THEN error("Unexpected token", [r EXCEPT !.pos = n.pos, !.log = log])
       ELSE IF numbered THEN store_instance(after, instances, IntOf(inst_name), inst)
       ELSE WithV(after, [r.v EXCEPT !.cust_instances = DictSet(@, name, inst.inst)])

\* _parse_connection_points: the body of a Point block.
\* r.v: [direction, pos, sign_pos, group_id, priority] (Optionals but priority).
parse_connection_point_key(toks, r, conn_key) ==
    LET folded_key == casefold(conn_key)
        e == expect(toks, r.pos, Token_STRING)
        dir == ConnSide_parse(e.v)
        c == Coord_parse(e.v)
    IN IF folded_key = Str("dir", LOWER)
       THEN IF ~e.ok THEN ExpectError(r, e)
            ELSE IF ~dir.ok THEN error(dir.msg, At(r, e.pos))
            ELSE Ok(e.pos, [r.v EXCEPT !.direction = Some(dir.v)], r.log)
       ELSE IF folded_key = Str("pos", LOWER)
       THEN IF ~e.ok THEN ExpectError(r, e)
            ELSE IF ~c.ok THEN error(c.msg, At(r, e.pos))
            ELSE Ok(e.pos, [r.v EXCEPT !.pos = Some(c.v)], r.log)
       ELSE IF folded_key = Str("signageoffset", LOWER)
       THEN IF ~e.ok THEN ExpectError(r, e)
            ELSE IF ~c.ok THEN error(c.msg, At(r, e.pos))
            ELSE Ok(e.pos, [r.v EXCEPT !.sign_pos = Some(c.v)], r.log)
       ELSE IF folded_key = Str("priority", LOWER)
       THEN IF ~e.ok THEN ExpectError(r, e)
            ELSE Ok(e.pos, [r.v EXCEPT !.priority = conv_int(e.v)], r.log)
       ELSE IF folded_key = Str("groupid", LOWER)
       THEN IF ~e.ok THEN ExpectError(r, e)
            ELSE Ok(e.pos, [r.v EXCEPT !.group_id = Some(conv_int(e.v))], r.log)
       ELSE error("Unknown point option", r)

\* _parse_connection_points, the loop body.  r.v: the item.
parse_connection_points_key(toks, r, point_key) ==
    LET b == block("Point", toks,
                   WithV(r, [direction |-> None, pos |-> None, sign_pos |-> None,
                             group_id |-> None, priority |-> 0]), TRUE)
    IN IF casefold(point_key) # Str("point", LOWER) THEN error("Unknown connection point", r)
       ELSE IF Failed(b) THEN b
       ELSE IF b.v.direction = None THEN error("No direction for connection point!", b)
       ELSE IF b.v.pos = None THEN error("No position for connection point!", b)
       ELSE IF b.v.sign_pos = None THEN error("No signage position for connection point!", b)
       ELSE WithV(b, [r.v EXCEPT !.antline_points[b.v.direction[1]] =
                        Append(@, AntlinePoint(b.v.pos[1], b.v.sign_pos[1], b.v.priority, b.v.group_id))])

\* _parse_connection_points(tok)
parse_connection_points(toks, r) == block("ConnectionPoints", toks, r, TRUE)

Min(a, b) == IF a < b THEN a ELSE b
Max(a, b) == IF a > b THEN a ELSE b

\* A faulty volume_voxels, which takes pos_1 for the least corner; the
\* property of C7 rejects it.
volume_voxels_ordered(pos_1, pos_2) ==
    {Coord(x, y, z) : x \in pos_1[1] .. pos_2[1], y \in pos_1[2] .. pos_2[2], z \in pos_1[3] .. pos_2[3]}

\* _parse_embedded_voxels: the voxels of a volume between two corners.
volume_voxels(pos_1, pos_2) ==
    {Coord(x, y, z) : x \in Min(pos_1[1], pos_2[1]) .. Max(pos_1[1], pos_2[1]),
                      y \in Min(pos_1[2], pos_2[2]) .. Max(pos_1[2], pos_2[2]),
                      z \in Min(pos_1[3], pos_2[3]) .. Max(pos_1[3], pos_2[3])}

\* _parse_embedded_voxels: the body of a Volume block.  r.v: [pos_1, pos_2].
parse_embedded_volume_key(toks, r, pos_key) ==
    LET e == expect(toks, r.pos, Token_STRING)
        c == Coord_parse(e.v)
    IN IF casefold(pos_key) = Str("pos1", LOWER)
       THEN IF ~e.ok THEN ExpectError(r, e)
            ELSE IF ~c.ok THEN error(c.msg, At(r, e.pos))
            ELSE Ok(e.pos, [r.v EXCEPT !.pos_1 = Some(c.v)], r.log)
       ELSE IF casefold(pos_key) = Str("pos2", LOWER)
       THEN IF ~e.ok THEN ExpectError(r, e)
            ELSE IF ~c.ok THEN error(c.msg, At(r, e.pos))
            ELSE Ok(e.pos, [r.v EXCEPT !.pos_2 = Some(c.v)], r.log)
       ELSE error("Unknown volume key", r)

\* _parse_embedded_voxels: the body of a Voxel block.  r.v: the item.
parse_embedded_voxel_key(toks, r, pos_key) ==
    LET e == expect(toks, r.pos, Token_STRING)
        c == Coord_parse(e.v)
    IN IF casefold(pos_key) = Str("pos", LOWER)
       THEN IF ~e.ok THEN ExpectError(r, e)
            ELSE IF ~c.ok THEN error(c.msg, At(r, e.pos))
            ELSE Ok(e.pos, [r.v EXCEPT !.embed_voxels = @ \cup {c.v}], r.log)
       ELSE error("Unknown voxel key", r)

\* _parse_embedded_voxels, the loop body.  r.v: the item.  A key that is
\* neither Volume nor Voxel does nothing.
parse_embedded_voxels_key(toks, r, embed_key) ==
    LET folded_key == casefold(embed_key)
        b == block("EmbeddedVolume", toks, WithV(r, [pos_1 |-> None, pos_2 |-> None]), TRUE)
    IN IF folded_key = Str("volume", LOWER)
       THEN IF Failed(b) THEN b
            ELSE IF b.v.pos_1 = None \/ b.v.pos_2 = None THEN error("Missing coordinate for volume!", b)
            ELSE WithV(b, [r.v EXCEPT !.embed_voxels = @ \cup volume_voxels(b.v.pos_1[1], b.v.pos_2[1])])
       ELSE IF folded_key = Str("voxel", LOWER)
       THEN block("EmbeddedVoxel", toks, r, TRUE)
       ELSE r

\* _parse_embedded_voxels(tok)
parse_embedded_voxels(toks, r) == block("EmbeddedVoxels", toks, r, TRUE)

\* _parse_embed_faces: the body of a Solid block.  r.v: [center, size, grid].
parse_embed_face_solid_key(toks, r, opt_key) ==
    LET folded_key == casefold(opt_key)
        e == expect(toks, r.pos, Token_STRING)
    IN IF folded_key = Str("center", LOWER)
       THEN IF ~e.ok THEN ExpectError(r, e) ELSE Ok(e.pos, [r.v EXCEPT !.center = Some(Vec_from_str(e.v))], r.log)
       ELSE IF folded_key = Str("dimensions", LOWER)
       THEN IF ~e.ok THEN ExpectError(r, e) ELSE Ok(e.pos, [r.v EXCEPT !.size = Some(Vec_from_str(e.v))], r.log)
       ELSE IF folded_key = Str("grid", LOWER)
       THEN IF ~e.ok THEN ExpectError(r, e)
            ELSE IF FACE_TYPES(e.v) = "" THEN error("Unknown face type", At(r, e.pos))
            ELSE Ok(e.pos, [r.v EXCEPT !.grid = FACE_TYPES(e.v)], r.log)
       ELSE error("Unknown Embed Face option", r)

\* _parse_embed_faces, the loop body.  r.v: the item.
parse_embed_faces_key(toks, r, solid_key) ==
    LET b == block("Solid", toks, WithV(r, [center |-> None, size |-> None, grid |-> "NORMAL"]), TRUE)
    IN IF casefold(solid_key) # Str("solid", LOWER) THEN error("Unknown Embed Face type", r)
       ELSE IF Failed(b) THEN b
       ELSE IF b.v.center = None THEN error("No position specified for embedded face!", b)
       ELSE IF b.v.size = None THEN error("No size specified for embedded face!", b)
       ELSE WithV(b, [r.v EXCEPT !.embed_faces = Append(@, EmbedFace(b.v.center[1], b.v.size[1], b.v.grid))])

\* _parse_embed_faces(tok)
parse_embed_faces(toks, r) == block("EmbedFace", toks, r, TRUE)

\* _parse_overlay: the loop body.  r.v: [center, size, material, rotation].
parse_overlay_key(toks, r, opt_key) ==
    LET folded_key == casefold(opt_key)
        e == expect(toks, r.pos, Token_STRING)
    IN IF folded_key = Str("center", LOWER)
       THEN IF ~e.ok THEN ExpectError(r, e) ELSE Ok(e.pos, [r.v EXCEPT !.center = Some(Vec_from_str(e.v))], r.log)
       ELSE IF folded_key = Str("dimensions", LOWER)
       THEN IF ~e.ok THEN ExpectError(r, e) ELSE Ok(e.pos, [r.v EXCEPT !.size = Some(Vec_from_str(e.v))], r.log)
       ELSE IF folded_key = Str("material", LOWER)
       THEN IF ~e.ok THEN ExpectError(r, e) ELSE Ok(e.pos, [r.v EXCEPT !.material = e.v], r.log)
       ELSE IF folded_key = Str("rotation", LOWER)
       THEN IF ~e.ok THEN ExpectError(r, e) ELSE Ok(e.pos, [r.v EXCEPT !.rotation = conv_int(e.v)], r.log)
       ELSE error("Unknown Overlay option", r)

\* _parse_overlay(tok).  r.v: the item.
parse_overlay(toks, r) ==
    LET b == block("Overlay", toks,
                   WithV(r, [center |-> None, size |-> None, material |-> EmptyStr, rotation |-> 0]), TRUE)
    IN IF Failed(b) THEN b
       ELSE IF b.v.center = None THEN error("No position specified for overlay!", b)
       ELSE IF b.v.size = None THEN error("No size specified for overlay!", b)
       ELSE WithV(b, [r.v EXCEPT !.overlays = Append(@, Overlay(b.v.material, b.v.center[1], b.v.size[1], b.v.rotation))])

\* _parse_export_block: the loop that skips an unknown key, counting braces.
\* It ends at the closing brace that brings the level to 0 or below, or at
\* the end of the stream.
RECURSIVE skip_unknown(_, _, _)
skip_unknown(toks, pos, level) ==
    LET t == TokAt(toks, pos) IN
    IF t.t = Token_EOF THEN pos
    ELSE IF t.t = Token_BRACE_OPEN THEN skip_unknown(toks, pos + 1, level + 1)
    ELSE IF t.t = Token_BRACE_CLOSE
    THEN IF level - 1 <= 0 THEN pos + 1 ELSE skip_unknown(toks, pos + 1, level - 1)
    ELSE skip_unknown(toks, pos + 1, level)

\* _parse_export_block: a key that is none of the known ones.
parse_export_block_other(toks, r, key) == At(r, skip_unknown(toks, r.pos, 0))

\* _parse_export_block, the loop body.  r.v: the item.
parse_export_block_key(toks, r, key) ==
    LET folded_key == casefold(key)
        e == expect(toks, r.pos, Token_STRING)
    IN IF folded_key = Str("targetname", LOWER)
       THEN IF ~e.ok THEN ExpectError(r, e) ELSE Ok(e.pos, [r.v EXCEPT !.targetname = e.v], r.log)
       ELSE IF folded_key = Str("offset", LOWER)
       THEN IF ~e.ok THEN ExpectError(r, e) ELSE Ok(e.pos, [r.v EXCEPT !.offset = Vec_from_str(e.v)], r.log)
       ELSE IF folded_key = Str("instances", LOWER) THEN block("Instance", toks, r, TRUE)
       ELSE IF folded_key = Str("connectionpoints", LOWER) THEN parse_connection_points(toks, r)
       ELSE IF folded_key = Str("embeddedvoxels", LOWER) THEN parse_embedded_voxels(toks, r)
       ELSE IF folded_key = Str("embedface", LOWER) THEN parse_embed_faces(toks, r)
       ELSE IF folded_key = Str("overlay", LOWER) THEN parse_overlay(toks, r)
       ELSE parse_export_block_other(toks, r, key)

\* _parse_export_block(tok)
parse_export_block(toks, r) == block("Exporting", toks, r, TRUE)

----------------------------------------------------------------------------
(* Item.parse_one and Item.parse *)

\* A faulty parse_one_type, which lets a later Type replace the identifier;
\* the property of C11 rejects it.
parse_one_type_again(toks, r) ==
    LET e == expect(toks, r.pos, Token_STRING) IN
    IF ~e.ok THEN ExpectError(r, e)
    ELSE IF upper(e.v) = EmptyStr THEN error("Invalid item ID (Type)", Ok(e.pos, [r.v EXCEPT !.id = upper(e.v)], r.log))
    ELSE Ok(e.pos, [r.v EXCEPT !.id = upper(e.v)], r.log)

\* parse_one: the 'type' key.  r.v: the item.
parse_one_type(toks, r) ==
    LET e == expect(toks, r.pos, Token_STRING) IN
    IF r.v.id # EmptyStr THEN error("Item ID (Type) set multiple times!", r)
    ELSE IF ~e.ok THEN ExpectError(r, e)
    ELSE IF upper(e.v) = EmptyStr THEN error("Invalid item ID (Type)", Ok(e.pos, [r.v EXCEPT !.id = upper(e.v)], r.log))
    ELSE Ok(e.pos, [r.v EXCEPT !.id = upper(e.v)], r.log)

\* parse_one: a key that is none of the known ones.
parse_one_unknown(toks, r, tok_value) == error("Unexpected item option", r)

\* parse_one: the dispatch on a string token.  r.v: the item.
parse_one_key(toks, r, key) ==
    LET tok_value == casefold(key)
        e == expect(toks, r.pos, Token_STRING)
    IN IF tok_value = Str("type", LOWER) THEN parse_one_type(toks, r)
       ELSE IF tok_value = Str("itemclass", LOWER)
       THEN IF ~e.ok THEN ExpectError(r, e)
            ELSE IF ITEM_CLASSES(e.v) = "" THEN error("Unknown item class", At(r, e.pos))
            ELSE Ok(e.pos, [r.v EXCEPT !.cls = ITEM_CLASSES(e.v)], r.log)
       ELSE IF tok_value = Str("editor", LOWER) THEN parse_editor_block(toks, r)
       ELSE IF tok_value = Str("properties", LOWER) THEN parse_properties_block(toks, r)
       ELSE IF tok_value = Str("exporting", LOWER) THEN parse_export_block(toks, r)
       ELSE IF tok_value \in {Str("author", LOWER), Str("description", LOWER), Str("filter", LOWER)}
       THEN IF ~e.ok THEN ExpectError(r, e) ELSE At(r, e.pos)
       ELSE parse_one_unknown(toks, r, tok_value)

\* A faulty parse_one_loop, which returns the item when the tokens end;
\* the property of C10 rejects it.
parse_one_loop_open(toks, r) == At(r, Len(toks))

\* parse_one: the loop over the tokens of the item block.
\* A newline is passed over; an exception raised by the body (Failed(r))
\* leaves the loop.
RECURSIVE parse_one_loop(_, _)
parse_one_loop(toks, r) ==
    LET p == SkipNewlines(toks, r.pos)
        t == TokAt(toks, p)
        q == Advance(toks, p)
    IN IF Failed(r) THEN r
       ELSE IF t.t = Token_EOF THEN error("File ended without closing item block!", At(r, p))
       ELSE IF t.t = Token_BRACE_CLOSE
       THEN IF r.v.id = EmptyStr THEN error("No item ID (Type) set!", At(r, q)) ELSE At(r, q)
       ELSE IF t.t # Token_STRING THEN error("Unexpected token", At(r, q))
       ELSE parse_one_loop(toks, parse_one_key(toks, At(r, q), t.v))

\* Item.parse_one(tok): the result's value is the item.
parse_one(toks, r) ==
    LET e == expect(toks, r.pos, Token_BRACE_OPEN) IN
    IF ~e.ok THEN ExpectError(r, e)
    ELSE parse_one_loop(toks, [r EXCEPT !.pos = e.pos, !.v = Item(EmptyStr, "UNCLASSED")])

NoDocument == [items |-> <<>>, icons |-> <<>>]

\* A faulty propagate, which returns what was parsed before the exception;
\* the property of C9 rejects it.
propagate_partial(r) == r

\* An exception leaves the function: nothing is returned.
propagate(r) == WithV(r, NoDocument)

\* A faulty parse_store_item, which keeps the item declared first; the
\* property of C8 rejects it.
parse_store_item_first(r, it) ==
    IF Failed(it) THEN WithV(it, NoDocument)
    ELSE IF DictHas(r.v.items, it.v.id) THEN At(r, it.pos)
    ELSE [r EXCEPT !.pos = it.pos, !.v = [r.v EXCEPT !.items = Append(@, <<it.v.id, it.v>>)]]

RedeclaredWarning(id) == <<"Item redeclared!", id>>

\* Item.parse: an 'item' block is parsed and stored under its id.
\* r.v: [items, icons], dicts.
parse_store_item(r, it) ==
    IF Failed(it) THEN propagate(it) ELSE
    [r EXCEPT !.pos = it.pos,
              !.log = IF DictHas(r.v.items, it.v.id) THEN Append(it.log, RedeclaredWarning(it.v.id)) ELSE it.log,
              !.v = [r.v EXCEPT !.items = DictSet(@, it.v.id, it.v)]]

\* Item.parse: the body of the Renderables block.  r.v: [items, icons].
parse_store_icon(r, ico) ==
    IF Failed(ico) THEN ico
    ELSE WithV(ico, [r.v EXCEPT !.icons = DictSet(@, ico.v.type, ico.v)])
parse_renderables_key(toks, r, render_block) ==
    IF casefold(render_block) # Str("item", LOWER) THEN error("Unknown block", r)
    ELSE parse_store_icon(r, Renderable_parse(toks, r))

\* A variant that tolerates an unknown top-level key by skipping its block.
parse_unknown_block_skipped(toks, r, key) == At(r, skip_unknown(toks, r.pos, 0))

\* Item.parse: a key that is neither 'item' nor 'renderables'.
parse_unknown_block(toks, r, key) == error("Unknown block", r)

\* Item.parse, the body of the loop over the ItemData block.
parse_key(toks, r, key) ==
    IF casefold(key) = Str("item", LOWER)
    THEN parse_store_item(r, parse_one(toks, r))
    ELSE IF casefold(key) = Str("renderables", LOWER)
    THEN block("Renderables", toks, r, TRUE)
    ELSE parse_unknown_block(toks, r, key)

----------------------------------------------------------------------------
(* Tokenizer.block *)

\* The body of the loop `for key in tok.block(name)`.
BlockBody(name, toks, r, key) ==
    CASE name = "Animations" -> Anim_parse_block_key(toks, r, key)
      [] name = "Renderable Item" -> Renderable_parse_key(toks, r, key)
      [] name = "Subtype" -> SubType_parse_key(toks, r, key)
      [] name = "Model" -> SubType_parse_model_key(toks, r, key)
      [] name = "Palette" -> SubType_parse_palette_key(toks, r, key)
      [] name = "Sounds" -> SubType_parse_sounds_key(toks, r, key)
      [] name = "Editor" -> parse_editor_block_key(toks, r, key)
      [] name = "Properties" -> parse_properties_block_key(toks, r, key)
      [] name = "options" -> parse_properties_option_key(toks, r, key)
      [] name = "Exporting" -> parse_export_block_key(toks, r, key)
      [] name = "Instance" -> parse_instance_block(toks, r, key)
      [] name = "Instances" -> parse_instance_block_key(toks, r, key)
      [] name = "ConnectionPoints" -> parse_connection_points_key(toks, r, key)
      [] name = "Point" -> parse_connection_point_key(toks, r, key)
      [] name = "EmbeddedVoxels" -> parse_embedded_voxels_key(toks, r, key)
      [] name = "EmbeddedVolume" -> parse_embedded_volume_key(toks, r, key)
      [] name = "EmbeddedVoxel" -> parse_embedded_voxel_key(toks, r, key)
      [] name = "EmbedFace" -> parse_embed_faces_key(toks, r, key)
      [] name = "Solid" -> parse_embed_face_solid_key(toks, r, key)
      [] name = "Overlay" -> parse_overlay_key(toks, r, key)
      [] name = "Renderables" -> parse_renderables_key(toks, r, key)
      [] name = "ItemData" -> parse_key(toks, r, key)

\* One turn of the generator Tokenizer.block: the next key of the block, its
\* end, or an error (a token that is no string, or the end of the stream).
block_next(toks, pos) ==
    LET p == SkipNewlines(toks, pos)
        t == TokAt(toks, p)
    IN [pos |-> Advance(toks, p),
        kind |-> CASE t.t = Token_STRING -> "key"
                   [] t.t = Token_BRACE_CLOSE -> "end"
                   [] t.t = Token_EOF -> "eof"
                   [] OTHER -> "bad",
        v |-> t.v]

\* The loop `for key in tok.block(name)`: an exception raised by the body
\* or by the generator (Failed(r)) leaves it.
RECURSIVE block_loop(_, _, _)
block_loop(name, toks, r) ==
    LET n == block_next(toks, r.pos) IN
    IF Failed(r) THEN r
    ELSE IF n.kind = "end" THEN At(r, n.pos)
    ELSE IF n.kind = "eof" THEN error("Block is not closed!", At(r, n.pos))
    ELSE IF n.kind = "bad" THEN error("Unexpected token", At(r, n.pos))
    ELSE block_loop(name, toks, BlockBody(name, toks, At(r, n.pos), n.v))

\* tok.block: the opening brace, expected unless the caller has consumed it.
block_open(toks, r, consume_brace) ==
    LET e == expect(toks, r.pos, Token_BRACE_OPEN) IN
    IF ~consume_brace THEN r
    ELSE IF ~e.ok THEN ExpectError(r, e)
    ELSE At(r, e.pos)

\* tok.block(name, consume_brace) with the loop over it.
block(name, toks, r, consume_brace) ==
    block_loop(name, toks, block_open(toks, r, consume_brace))

\* Item.parse: up to the first key of the ItemData block.
parse_header(toks) ==
    LET r0 == Ok(0, NoDocument, <<>>)
        e == expect(toks, 0, Token_STRING)
        b == expect(toks, e.pos, Token_BRACE_OPEN)
    IN IF ~e.ok THEN ExpectError(r0, e)
       ELSE IF casefold(e.v) # Str("itemdata", LOWER) THEN error("No ItemData block present!", At(r0, e.pos))
       ELSE IF ~b.ok THEN ExpectError(r0, b)
       ELSE At(r0, b.pos)

\* Item.parse(file): the whole parse.  The value is [items, icons], and
\* nothing when an exception is raised.
finish(r) == IF Failed(r) THEN propagate(r) ELSE r
Item_parse(toks) == finish(block_loop("ItemData", toks, parse_header(toks)))

----------------------------------------------------------------------------
(* bounding_boxes *)

EXTENT == 50

\* The lattice points of the box between two corners.
BoxPoints(lo, hi) ==
    {Coord(x, y, z) : x \in lo[1] .. hi[1], y \in lo[2] .. hi[2], z \in lo[3] .. hi[3]}

\* The points the box would gain with its extent along `axis` moved to c.
Section(lo, hi, axis, c) == {[q EXCEPT ![axis] = c] : q \in BoxPoints(lo, hi)}

\* A faulty extend_up, which takes the next section without looking at
\* todo; the property of C2 rejects it.
extend_up_blind(todo, lo, hi, axis, c, stop) == c

\* `for c in range(start + 1, start + EXTENT)`: the last c reached while
\* every point of each new section is in todo.
RECURSIVE extend_up(_, _, _, _, _, _)
extend_up(todo, lo, hi, axis, c, stop) ==
    IF c < stop /\ Section(lo, hi, axis, c) \subseteq todo
    THEN extend_up(todo, lo, hi, axis, c + 1, stop)
    ELSE c - 1

\* A faulty extend_down, which takes the next section without looking at
\* todo; the property of C26 rejects it.
extend_down_blind(todo, lo, hi, axis, c, stop) == c

\* `for c in range(start - 1, start - EXTENT, -1)`, likewise.
RECURSIVE extend_down(_, _, _, _, _, _)
extend_down(todo, lo, hi, axis, c, stop) ==
    IF c > stop /\ Section(lo, hi, axis, c) \subseteq todo
    THEN extend_down(todo, lo, hi, axis, c - 1, stop)
    ELSE c + 1

\* The box grown along one axis, up then down, from the seed's coordinate.
grow_axis(todo, box, axis, seed) ==
    LET up == extend_up(todo, box[1], box[2], axis, seed[axis] + 1, seed[axis] + EXTENT)
        hi == [box[2] EXCEPT ![axis] = up]
        down == extend_down(todo, box[1], hi, axis, seed[axis] - 1, seed[axis] - EXTENT)
    IN <<[box[1] EXCEPT ![axis] = down], hi>>

\* One turn of the loop of bounding_boxes: the box grown from the popped
\* seed along X, then Y, then Z.  `todo` no longer holds the seed.
grow_box(todo, seed) ==
    grow_axis(todo, grow_axis(todo, grow_axis(todo, <<seed, seed>>, 1, seed), 2, seed), 3, seed)

\* bounding_boxes(voxels): set.pop() takes any remaining point, so the
\* generator can emit any of these sequences of boxes.
RECURSIVE bounding_boxes(_)
bounding_boxes(voxels) ==
    IF voxels = {} THEN {<<>>}
    ELSE UNION {
        LET box == grow_box(voxels \ {seed}, seed) IN
        {<<box>> \o rest : rest \in bounding_boxes((voxels \ {seed}) \ BoxPoints(box[1], box[2]))}
        : seed \in voxels}

----------------------------------------------------------------------------
(* The writer.  The text written is a sequence of tokens: a newline token  *)
(* for each line break, a comment token for a comment.                     *)

COMMENT == "COMMENT"
Comment(s) == [t |-> COMMENT, v |-> Str(s, MIXED)]

\* Concatenation of a sequence of token sequences.
RECURSIVE Flatten(_)
Flatten(seqs) == IF seqs = <<>> THEN <<>> ELSE Head(seqs) \o Flatten(Tail(seqs))

\* The line `"key" "value"\n`.
Line(key, value) == <<K(key), S(value), NL>>

\* sorted(pairs, key=lambda t: t[1]): stable, by insertion.
RECURSIVE insert_sorted(_, _)
insert_sorted(sorted, pair) ==
    IF sorted = <<>> THEN <<pair>>
    ELSE IF sorted[Len(sorted)][2] <= pair[2] THEN Append(sorted, pair)
    ELSE Append(insert_sorted(SubSeq(sorted, 1, Len(sorted) - 1), pair), sorted[Len(sorted)])
RECURSIVE sorted_by_value(_)
sorted_by_value(pairs) ==
    IF pairs = <<>> THEN <<>>
    ELSE insert_sorted(sorted_by_value(SubSeq(pairs, 1, Len(pairs) - 1)), pairs[Len(pairs)])

\* SubType.export: the Palette block.
SubType_export_palette(self) ==
    IF self.pal_pos = None THEN <<>>
    ELSE <<K("palette"), NL, LB, NL>>
         \o Line("tooltip", self.pal_name)
         \o (IF self.pal_icon # None THEN Line("image", with_suffix(self.pal_icon[1], "png")) ELSE <<>>)
         \o Line("position", Ints3(self.pal_pos[1][1], self.pal_pos[1][2], 0))
         \o <<RB, NL>>

\* SubType.export: the Sounds block.
SubType_export_sounds(self) ==
    IF DictEq(self.sounds, DEFAULT_SOUNDS) THEN <<>>
    ELSE <<K("sounds"), NL, LB, NL>>
         \o Flatten([i \in DOMAIN SoundOrder |->
                IF DictHas(self.sounds, SoundOrder[i])
                THEN <<S(Sound[SoundOrder[i]]), S(DictGet(self.sounds, SoundOrder[i])), NL>>
                ELSE <<>>])
         \o <<RB, NL>>

\* SubType.export: the animations, written under the key "Sounds".
SubType_export_anims(self) ==
    IF self.anims = <<>> THEN <<>>
    ELSE <<K("sounds"), NL, LB, NL>>
         \o Flatten([i \in DOMAIN self.anims |->
                <<S(Anim[sorted_by_value(self.anims)[i][1]]),
                  S(IntStr(sorted_by_value(self.anims)[i][2])), NL>>])
         \o <<RB, NL>>

\* SubType.export(f)
SubType_export(self) ==
    <<K("subtype"), NL, LB, NL>>
    \o (IF self.name # EmptyStr THEN Line("name", self.name) ELSE <<>>)
    \o Flatten([i \in DOMAIN self.models |->
            <<K("model"), LB, K("modelname"), S(with_suffix(self.models[i], "3ds")), RB, NL>>])
    \o SubType_export_palette(self)
    \o SubType_export_sounds(self)
    \o SubType_export_anims(self)
    \o <<RB, NL>>

\* The Surface members sorted by value: 'CEILING' < 'FLOOR' < 'WALL'.
SurfaceSorted == <<"CEIL", "FLOOR", "WALL">>

\* A faulty export_invalid_surf, which writes the surfaces in the order the
\* enumeration defines them; the property of C12 rejects it.
export_invalid_surf_unsorted(self) ==
    IF self.invalid_surf = {} THEN <<>>
    ELSE Line("invalidsurface",
              (IF "WALL" \in self.invalid_surf THEN Surface["WALL"] ELSE <<>>)
              \o (IF "FLOOR" \in self.invalid_surf THEN Surface["FLOOR"] ELSE <<>>)
              \o (IF "CEIL" \in self.invalid_surf THEN Surface["CEIL"] ELSE <<>>))

\* export_one: the InvalidSurface line.
export_invalid_surf(self) ==
    IF self.invalid_surf = {} THEN <<>>
    ELSE Line("invalidsurface",
              Flatten([i \in DOMAIN SurfaceSorted |->
                  IF SurfaceSorted[i] \in self.invalid_surf THEN Surface[SurfaceSorted[i]] ELSE <<>>]))

\* A faulty export_flags, which writes Copyable and Deletable when they are
\* true; the property of C14 rejects it.
export_flags_when_true(self) ==
    (IF self.anchor_goo THEN Line("cananchorongoo", IntStr(1)) ELSE <<>>)
    \o (IF self.anchor_barriers THEN Line("cananchoronbarriers", IntStr(1)) ELSE <<>>)
    \o (IF self.copiable THEN Line("copyable", IntStr(1)) ELSE <<>>)
    \o (IF self.deletable THEN Line("deletable", IntStr(1)) ELSE <<>>)
    \o (IF self.pseduo_handle THEN Line("pseudohandle", IntStr(1)) ELSE <<>>)

\* export_one: the boolean flags written after InvalidSurface.
export_flags(self) ==
    (IF self.anchor_goo THEN Line("cananchorongoo", IntStr(1)) ELSE <<>>)
    \o (IF self.anchor_barriers THEN Line("cananchoronbarriers", IntStr(1)) ELSE <<>>)
    \o (IF ~self.copiable THEN Line("copyable", IntStr(0)) ELSE <<>>)
    \o (IF ~self.deletable THEN Line("deletable", IntStr(0)) ELSE <<>>)
    \o (IF self.pseduo_handle THEN Line("pseudohandle", IntStr(1)) ELSE <<>>)

\* export_one: the Editor block.
export_editor(self) ==
    <<K("editor"), NL, LB, NL>>
    \o (IF self.subtype_prop # None
        THEN Line("subtypeproperty", PROP_TYPES[self.subtype_prop[1]].id) ELSE <<>>)
    \o Flatten([i \in DOMAIN self.subtypes |-> SubType_export(self.subtypes[i])])
    \o Line("movementhandle", Handle[self.handle])
    \o Line("occupiesvoxel", IF self.occupies_voxel THEN IntStr(1) ELSE IntStr(0))
    \o (IF self.facing # "NONE" THEN Line("desiredfacing", DesiredFacing[self.facing]) ELSE <<>>)
    \o export_invalid_surf(self)
    \o export_flags(self)
    \o <<RB, NL>>

\* export_one: the Properties block.
export_properties(self) ==
    IF self.properties = <<>> THEN <<>>
    ELSE <<K("properties"), NL, LB, NL>>
         \o Flatten([i \in DOMAIN self.properties |->
                <<S(DictValues(self.properties)[i].id), NL, LB, NL>>
                \o Line("defaultvalue", ItemProp_export(DictValues(self.properties)[i]))
                \o Line("index", IntStr(DictValues(self.properties)[i].index))
                \o <<RB, NL>>])
         \o <<RB, NL>>

\* export_one: the Instances block.
export_instances(self) ==
    IF self.instances = <<>> THEN <<>>
    ELSE <<K("instances"), NL, LB, NL>>
         \o Flatten([i \in DOMAIN self.instances |->
                LET inst == self.instances[i] IN
                <<S(IntStr(i - 1)), NL, LB, NL>>
                \o (IF inst.inst = FSPath(EmptyStr) THEN Line("name", EmptyStr)
                    ELSE IF inst.ent_count # 0 \/ inst.brush_count # 0 \/ inst.face_count # 0
                    THEN Line("name", inst.inst)
                         \o Line("entitycount", IntStr(inst.ent_count))
                         \o Line("brushcount", IntStr(inst.brush_count))
                         \o Line("brushsidecount", IntStr(inst.face_count))
                    ELSE Line("name", inst.inst))
                \o <<RB, NL>>])
         \o <<RB, NL>>

\* export_one: the EmbeddedVoxels block, for the boxes bounding_boxes gave.
export_voxels(self, boxes) ==
    IF self.embed_voxels = {} THEN <<>>
    ELSE <<K("embeddedvoxels"), NL, LB, NL>>
         \o Flatten([i \in DOMAIN boxes |->
                IF boxes[i][1] = boxes[i][2]
                THEN <<K("voxel"), NL, LB, NL>> \o Line("pos", VecStr(boxes[i][1])) \o <<RB, NL>>
                ELSE <<K("volume"), NL, LB, NL>> \o Line("pos1", VecStr(boxes[i][1]))
                     \o Line("pos2", VecStr(boxes[i][2])) \o <<RB, NL>>])
         \o <<RB, NL>>

\* export_one: the EmbedFace block.
export_embed_faces(self) ==
    IF self.embed_faces = <<>> THEN <<>>
    ELSE <<K("embedface"), NL, LB, NL>>
         \o Flatten([i \in DOMAIN self.embed_faces |->
                <<K("solid"), NL, LB, NL>>
                \o Line("center", VecStr(self.embed_faces[i].center))
                \o Line("dimensions", VecStr(self.embed_faces[i].size))
                \o Line("grid", FaceType[self.embed_faces[i].type])
                \o <<RB, NL>>])
         \o <<RB, NL>>

\* export_one: the Overlay blocks.
export_overlays(self) ==
    Flatten([i \in DOMAIN self.overlays |->
        <<K("overlay"), NL, LB, NL>>
        \o Line("material", self.overlays[i].material)
        \o Line("center", VecStr(self.overlays[i].center))
        \o Line("dimensions", VecStr(self.overlays[i].size))
        \o Line("rotation", IntStr(self.overlays[i].rotation))
        \o <<RB, NL>>])

\* export_one: the points of one side.
export_points(side, points) ==
    Flatten([i \in DOMAIN points |->
        <<K("point"), NL, LB, NL>>
        \o Line("dir", VecStr(ConnSide[side]))
        \o Line("pos", VecStr(points[i].pos))
        \o Line("signageoffset", VecStr(points[i].sign_off))
        \o Line("priority", IntStr(points[i].priority))
        \o (IF points[i].group # None THEN Line("groupid", IntStr(points[i].group[1])) ELSE <<>>)
        \o <<RB, NL>>])

\* export_one: is_first when the loop reaches the i-th side.
IsFirstSide(self, i) == \A j \in 1 .. (i - 1) : self.antline_points[ConnSideOrder[j]] = <<>>

\* A faulty writer, which never writes the line between the sections; the
\* property of C18 rejects it.
export_connection_points_packed(self) ==
    IF \A side \in DOMAIN ConnSide : self.antline_points[side] = <<>> THEN <<>>
    ELSE <<K("connectionpoints"), NL, LB, NL>>
         \o Flatten([i \in DOMAIN ConnSideOrder |->
                LET side == ConnSideOrder[i] IN
                IF self.antline_points[side] = <<>> THEN <<>>
                ELSE <<Comment(side), NL>>
                     \o export_points(side, self.antline_points[side])])
         \o <<RB, NL>>

\* export_one: the ConnectionPoints block.
export_connection_points(self) ==
    IF \A side \in DOMAIN ConnSide : self.antline_points[side] = <<>> THEN <<>>
    ELSE <<K("connectionpoints"), NL, LB, NL>>
         \o Flatten([i \in DOMAIN ConnSideOrder |->
                LET side == ConnSideOrder[i] IN
                IF self.antline_points[side] = <<>> THEN <<>>
                ELSE (IF ~IsFirstSide(self, i) THEN <<NL>> ELSE <<>>)
                     \o <<Comment(side), NL>>
                     \o export_points(side, self.antline_points[side])])
         \o <<RB, NL>>

\* Item.export_one(f), with the boxes bounding_boxes(self.embed_voxels) gave.
export_one(self, boxes) ==
    <<K("item"), NL, LB, NL>>
    \o (IF self.cls # "UNCLASSED"
        THEN Line("type", self.id) \o Line("itemclass", ItemClass[self.cls])
        ELSE Line("type", self.id))
    \o export_editor(self)
    \o export_properties(self)
    \o <<K("exporting"), NL, LB, NL>>
    \o export_instances(self)
    \o (IF self.targetname # EmptyStr THEN Line("targetname", self.targetname) ELSE <<>>)
    \o Line("offset", VecStr(self.offset))
    \o export_voxels(self, boxes)
    \o export_embed_faces(self)
    \o export_overlays(self)
    \o export_connection_points(self)
    \o <<RB, NL>>
    \o <<RB, NL>>

\* The tokenizer drops comments.
Tokenize(text) == SelectSeq(text, LAMBDA t : t.t # COMMENT)

----------------------------------------------------------------------------
(* Inputs: the documents parsed and the items written, drawn from bounded  *)
(* families.                                                               *)

\* The longest sequence of instance-slot declarations, and the highest slot.
MaxDecls == 2
MaxSlot == 3
\* The most Volume and Voxel entries in one EmbeddedVoxels block.
MaxVoxEntries == 2
\* The most items declared with clashing identifiers.
MaxDup == 3
\* The deepest nesting of the value of an unknown Exporting key.
MaxDepth == 2
\* The most non-default features combined in one item that is written.
MaxFeatures == 2

\* Sequences over a set, up to a length.
SeqsUpTo(set, n) == UNION {[1 .. k -> set] : k \in 0 .. n}

ItemDataOpen == <<K("itemdata"), NL, LB, NL>>
ItemDataClose == <<RB, NL>>
Doc(body) == ItemDataOpen \o body \o ItemDataClose

\* A plain item with an identifier and a target name that tells it apart.
PlainItem(id, tag) ==
    [Item(id, "UNCLASSED") EXCEPT !.targetname = tag]
\* Its text, as the writer writes it.
PlainItemText(id, tag) == export_one(PlainItem(id, tag), <<>>)

\* A key no block knows, and one only the Exporting block knows.
BogusKey == Str("bogus", MIXED)
UnknownKeys == {BogusKey, Str("offset", MIXED)}

\* The value after a key: a scalar, nothing, or a block nested d deep.
RECURSIVE NestedBlock(_)
NestedBlock(d) ==
    IF d <= 1 THEN <<LB, NL, K("inner"), S(Str("v", LOWER)), NL, RB, NL>>
    ELSE <<LB, NL, K("outer"), S(Str("v", LOWER)), NL, K("nest"), NL>> \o NestedBlock(d - 1) \o <<RB, NL>>
ValueForms ==
    {[kind |-> k, d |-> 0] : k \in {"scalar", "none", "emptyblock"}}
    \cup {[kind |-> "block", d |-> d] : d \in 1 .. MaxDepth}
ValueTokens(form) ==
    CASE form.kind = "scalar" -> <<S(Str("v", LOWER)), NL>>
      [] form.kind = "none" -> <<NL>>
      [] form.kind = "emptyblock" -> <<NL, LB, NL, RB, NL>>
      [] form.kind = "block" -> <<NL>> \o NestedBlock(form.d)

\* Family "unknown": a good item, then a key in the given context, then the
\* closing braces and another good item.
Contexts == {"itemdata", "item", "editor", "subtype", "palette", "exporting"}
FatalContexts == {"itemdata", "item", "editor", "subtype"}
InContext(ctx, inner) ==
    LET type == Line("type", Str("item_b", UPPER)) IN
    CASE ctx = "itemdata" -> inner
      [] ctx = "item" -> <<K("item"), NL, LB, NL>> \o type \o inner \o <<RB, NL>>
      [] ctx = "editor" ->
            <<K("item"), NL, LB, NL>> \o type \o <<K("editor"), NL, LB, NL>> \o inner \o <<RB, NL, RB, NL>>
      [] ctx = "subtype" ->
            <<K("item"), NL, LB, NL>> \o type \o <<K("editor"), NL, LB, NL, K("subtype"), NL, LB, NL>>
            \o inner \o <<RB, NL, RB, NL, RB, NL>>
      [] ctx = "palette" ->
            <<K("item"), NL, LB, NL>> \o type
            \o <<K("editor"), NL, LB, NL, K("subtype"), NL, LB, NL, K("palette"), NL, LB, NL>>
            \o inner \o <<RB, NL, RB, NL, RB, NL, RB, NL>>
      [] ctx = "exporting" ->
            <<K("item"), NL, LB, NL>> \o type \o <<K("exporting"), NL, LB, NL>> \o inner \o <<RB, NL, RB, NL>>
UnknownInputs ==
    {[fam |-> "unknown", ctx |-> ctx, key |-> key, form |-> form] :
        ctx \in Contexts, key \in UnknownKeys, form \in ValueForms}
UnknownDoc(inp) ==
    Doc(PlainItemText(Str("item_a", UPPER), Str("first", LOWER))
        \o InContext(inp.ctx, <<S(inp.key)>> \o ValueTokens(inp.form))
        \o PlainItemText(Str("item_c", UPPER), Str("last", LOWER)))

\* Family "skip": an unknown key in the Exporting block, between two known
\* keys, in an item followed by another item.
SkipInputs == {[fam |-> "skip", form |-> form, before |-> b] : form \in ValueForms, b \in BOOLEAN}
SkipDocWith(inp, unknown) ==
    Doc(<<K("item"), NL, LB, NL>> \o Line("type", Str("item_b", UPPER))
        \o <<K("exporting"), NL, LB, NL>>
        \o (IF inp.before THEN Line("offset", Ints3(1, 2, 3)) ELSE <<>>)
        \o unknown
        \o Line("targetname", Str("after", LOWER))
        \o <<RB, NL, RB, NL>>
        \o PlainItemText(Str("item_c", UPPER), Str("last", LOWER)))
SkipDoc(inp) == SkipDocWith(inp, <<S(BogusKey)>> \o ValueTokens(inp.form))
\* The same document without the unknown key and its value.
SkipDocWithout(inp) == SkipDocWith(inp, <<>>)

\* A name with a number in it, such as inst3.vmf.
FileN(s, n, x) == <<[k |-> "name", s |-> s, n |-> n, c |-> LOWER, p |-> FALSE, x |-> x]>>

\* Family "inst": numbered instance slots declared in some order, each by a
\* bare file name or by a block with counts.  The j-th declaration names the
\* file inst<j>.vmf.
Decls == [slot : 0 .. MaxSlot, form : {"scalar", "block"}]
InstInputs == {[fam |-> "inst", decls |-> d] : d \in SeqsUpTo(Decls, MaxDecls)}
DeclInst(decls, j) ==
    IF decls[j].form = "scalar" THEN InstCount(FileN("inst", j, "vmf"), 0, 0, 0)
    ELSE InstCount(FileN("inst", j, "vmf"), j, j + 1, j + 2)
DeclTokens(decls, j) ==
    IF decls[j].form = "scalar"
    THEN <<S(IntStr(decls[j].slot)), S(FileN("inst", j, "vmf")), NL>>
    ELSE <<S(IntStr(decls[j].slot)), NL, LB, NL>>
         \o Line("entitycount", IntStr(j))
         \o Line("name", FileN("inst", j, "vmf"))
         \o Line("brushcount", IntStr(j + 1))
         \o Line("brushsidecount", IntStr(j + 2))
         \o <<RB, NL>>
InstDoc(inp) ==
    Doc(<<K("item"), NL, LB, NL>> \o Line("type", Str("item_b", UPPER))
        \o <<K("exporting"), NL, LB, NL, K("instances"), NL, LB, NL>>
        \o Flatten([j \in DOMAIN inp.decls |-> DeclTokens(inp.decls, j)])
        \o <<RB, NL, RB, NL, RB, NL>>)

\* Family "vox": Volume and Voxel entries of one EmbeddedVoxels block, their
\* corners among three points, each pair of which differs on two axes.
VoxPoints == {Coord(0, 0, 0), Coord(1, 1, 0), Coord(1, 0, 1)}
VoxEntries ==
    {[kind |-> "volume", p1 |-> a, p2 |-> b] : a \in VoxPoints, b \in VoxPoints}
    \cup {[kind |-> "voxel", p1 |-> a, p2 |-> a] : a \in VoxPoints}
VoxInputs == {[fam |-> "vox", entries |-> e] : e \in SeqsUpTo(VoxEntries, MaxVoxEntries)}
VoxEntryTokens(e) ==
    IF e.kind = "volume"
    THEN <<K("volume"), NL, LB, NL>> \o Line("pos1", VecStr(e.p1)) \o Line("pos2", VecStr(e.p2)) \o <<RB, NL>>
    ELSE <<K("voxel"), NL, LB, NL>> \o Line("pos", VecStr(e.p1)) \o <<RB, NL>>
VoxDoc(inp) ==
    Doc(<<K("item"), NL, LB, NL>> \o Line("type", Str("item_b", UPPER))
        \o <<K("exporting"), NL, LB, NL, K("embeddedvoxels"), NL, LB, NL>>
        \o Flatten([j \in DOMAIN inp.entries |-> VoxEntryTokens(inp.entries[j])])
        \o <<RB, NL, RB, NL, RB, NL>>)

\* Family "dup": items whose identifiers clash when case is ignored.  The
\* j-th item has the target name decl<j>.
DupIds == {Str("item_x", LOWER), Str("item_x", UPPER), Str("item_x", MIXED), Str("item_y", UPPER)}
DupInputs == {[fam |-> "dup", ids |-> d] : d \in SeqsUpTo(DupIds, MaxDup)}
DupDoc(inp) ==
    Doc(Flatten([j \in DOMAIN inp.ids |-> PlainItemText(inp.ids[j], FileN("decl", j, ""))]))

\* Family "trunc": a document that uses every block, cut after `cut` tokens.
FullItemText ==
    <<K("item"), NL, LB, NL>>
    \o Line("type", Str("item_full", MIXED))
    \o Line("itemclass", Str("itemcube", LOWER))
    \o Line("author", Str("valve", LOWER))
    \o <<K("editor"), NL, LB, NL>>
    \o Line("subtypeproperty", Str("startenabled", MIXED))
    \o <<K("subtype"), NL, LB, NL>>
    \o Line("name", Str("cube", LOWER))
    \o <<K("model"), LB, K("modelname"), S(File("cube", "3ds")), K("texturename"), S(File("cube", "vtf")), RB, NL>>
    \o <<K("model"), S(File("cube_alt", "mdl")), NL>>
    \o <<K("palette"), NL, LB, NL>>
    \o Line("tooltip", Str("cube", UPPER))
    \o Line("image", File("cube", "png"))
    \o Line("position", <<IntWord(4), IntWord(2)>>)
    \o <<RB, NL>>
    \o <<K("sounds"), NL, LB, NL>> \o Line("sound_created", Str("p2editor.placecube", MIXED)) \o <<RB, NL>>
    \o <<K("animations"), NL, LB, NL, S(Str("anim_idle", UPPER)), S(IntStr(3)), NL, RB, NL>>
    \o <<RB, NL>>
    \o <<K("animations"), NL, LB, NL, S(Str("anim_falling_idle", UPPER)), S(IntStr(1)), NL, RB, NL>>
    \o Line("movementhandle", Str("handle_4_directions", UPPER))
    \o Line("invalidsurface", <<Name("wall", UPPER), Name("floor", UPPER)>>)
    \o Line("desiredfacing", Str("desires_up", UPPER))
    \o Line("rendercolor", Ints3(255, 255, 255))
    \o Line("cananchorongoo", IntStr(1))
    \o Line("pseudohandle", IntStr(1))
    \o <<RB, NL>>
    \o <<K("properties"), NL, LB, NL, K("connectioncount"), NL, LB, NL>>
    \o Line("defaultvalue", IntStr(2)) \o Line("index", IntStr(1)) \o Line("bee2_ignore", IntStr(1))
    \o <<RB, NL, RB, NL>>
    \o <<K("exporting"), NL, LB, NL>>
    \o <<K("instances"), NL, LB, NL>>
    \o <<S(IntStr(1)), NL, LB, NL>> \o Line("name", File("cube", "vmf")) \o Line("entitycount", IntStr(5))
    \o Line("brushcount", IntStr(6)) \o Line("brushsidecount", IntStr(7)) \o <<RB, NL>>
    \o <<S(<<[k |-> "name", s |-> "cube_extra", n |-> 0, c |-> MIXED, p |-> TRUE, x |-> ""]>>),
         S(File("extra", "vmf")), NL>>
    \o <<RB, NL>>
    \o Line("targetname", Str("cube", LOWER))
    \o Line("offset", Ints3(64, 64, 0))
    \o <<K("inputs"), NL>> \o NestedBlock(2)
    \o <<K("connectionpoints"), NL, LB, NL, K("point"), NL, LB, NL>>
    \o Line("dir", Ints3(0, 1, 0)) \o Line("pos", Ints3(1, 2, 0)) \o Line("signageoffset", Ints3(2, 2, 0))
    \o Line("priority", IntStr(1)) \o Line("groupid", IntStr(4))
    \o <<RB, NL, RB, NL>>
    \o <<K("embeddedvoxels"), NL, LB, NL>>
    \o VoxEntryTokens([kind |-> "volume", p1 |-> Coord(0, 0, 0), p2 |-> Coord(1, 1, 0)])
    \o VoxEntryTokens([kind |-> "voxel", p1 |-> Coord(0, 0, 1), p2 |-> Coord(0, 0, 1)])
    \o <<RB, NL>>
    \o <<K("embedface"), NL, LB, NL, K("solid"), NL, LB, NL>>
    \o Line("center", Ints3(64, 64, 128)) \o Line("dimensions", Ints3(128, 128, 4)) \o Line("grid", Str("4x4", LOWER))
    \o <<RB, NL, RB, NL>>
    \o <<K("overlay"), NL, LB, NL>>
    \o Line("center", Ints3(64, 64, 0)) \o Line("dimensions", Ints3(32, 32, 0))
    \o Line("material", Str("signage/arrow", LOWER)) \o Line("rotation", IntStr(90))
    \o <<RB, NL>>
    \o <<RB, NL>>
    \o <<RB, NL>>

RenderablesText ==
    <<K("renderables"), NL, LB, NL, K("item"), NL, LB, NL>>
    \o Line("type", Str("errorstate", MIXED))
    \o Line("model", File("error", "mdl"))
    \o <<K("animations"), NL, LB, NL, S(Str("anim_icon_idle", UPPER)), S(IntStr(0)), NL, RB, NL>>
    \o <<RB, NL, RB, NL>>

FullDoc == Doc(FullItemText \o RenderablesText)
TruncInputs == {[fam |-> "trunc", cut |-> c] : c \in 0 .. Len(FullDoc)}
TruncDoc(inp) == SubSeq(FullDoc, 1, inp.cut)
\* The cut falls inside the Item block: after its opening brace and before
\* its closing one.
ItemBlockStart == Len(ItemDataOpen) + 3
ItemBlockEnd == Len(ItemDataOpen) + Len(FullItemText) - 2

\* Family "rt": items in memory, each the default item with a few features
\* set to other values, to be written and parsed back.
Features ==
    <<"class", "editor", "subtype", "palette", "sounds", "subanims", "anims",
      "goo", "barriers", "flags", "pseudo", "props", "propsignore",
      "instances", "custinst", "target", "points", "voxels", "voxelbox", "faces">>

BaseSubType ==
    SubType(Str("cube", LOWER), <<File("cube", "mdl")>>, DEFAULT_SOUNDS, <<>>, EmptyStr, None, None)
\* The item with its first subtype (created when there is none) changed.
WithSubType(item, field, value) ==
    LET subs == IF item.subtypes = <<>> THEN <<BaseSubType>> ELSE item.subtypes
    IN [item EXCEPT !.subtypes = [subs EXCEPT ![1] = [subs[1] EXCEPT ![field] = value]]]

ApplyFeature(item, f) ==
    CASE f = "class" -> [item EXCEPT !.cls = "CUBE"]
      [] f = "editor" -> [item EXCEPT !.handle = "QUAD", !.facing = "POSX",
                                      !.invalid_surf = {"WALL", "FLOOR"},
                                      !.subtype_prop = Some("startenabled")]
      [] f = "subtype" -> WithSubType(item, "name", Str("box", LOWER))
      [] f = "palette" ->
            WithSubType(WithSubType(WithSubType(item, "pal_name", Str("cube", UPPER)),
                                    "pal_pos", Some(<<4, 2>>)),
                        "pal_icon", Some(File("cube", "png")))
      [] f = "sounds" -> WithSubType(item, "sounds",
                            DictSet(DEFAULT_SOUNDS, "CREATE", Str("p2editor.placecube", MIXED)))
      [] f = "subanims" -> WithSubType(item, "anims", << <<"IDLE", 3>>, <<"EDIT_START", 1>> >>)
      [] f = "anims" -> [item EXCEPT !.animations = << <<"CUBE_FALL", 1>> >>]
      [] f = "goo" -> [item EXCEPT !.anchor_goo = TRUE]
      [] f = "barriers" -> [item EXCEPT !.anchor_barriers = TRUE]
      [] f = "flags" -> [item EXCEPT !.occupies_voxel = FALSE, !.copiable = FALSE, !.deletable = FALSE]
      [] f = "pseudo" -> [item EXCEPT !.pseduo_handle = TRUE]
      [] f = "props" -> [item EXCEPT !.properties =
                            DictSet(@, PROP_TYPES["connectioncount"].id,
                                    ItemProp("connectioncount", IntStr(2), 1, TRUE).v)]
      [] f = "propsignore" -> [item EXCEPT !.properties =
                            DictSet(@, PROP_TYPES["startenabled"].id,
                                    ItemProp("startenabled", IntStr(1), 0, FALSE).v)]
      [] f = "instances" -> [item EXCEPT !.instances =
                            <<InstCount(FSPath(EmptyStr), 0, 0, 0),
                              InstCount(File("cube", "vmf"), 5, 6, 7),
                              InstCount(File("cube_b", "vmf"), 0, 0, 0)>>]
      [] f = "custinst" -> [item EXCEPT !.cust_instances = << <<Str("cube_extra", LOWER), File("extra", "vmf")>> >>]
      [] f = "target" -> [item EXCEPT !.targetname = Str("cube", LOWER), !.offset = Vec(64, 64, 0)]
      [] f = "points" -> [item EXCEPT
                            !.antline_points["UP"] =
                                <<AntlinePoint(Coord(1, 2, 0), Coord(2, 2, 0), 1, Some(4)),
                                  AntlinePoint(Coord(3, 2, 0), Coord(2, 2, 0), 0, None)>>,
                            !.antline_points["RIGHT"] =
                                <<AntlinePoint(Coord(-1, 1, 0), Coord(-2, 1, 0), 0, None)>>]
      [] f = "voxels" -> [item EXCEPT !.embed_voxels = @ \cup {Coord(0, 0, 0), Coord(1, 0, 0), Coord(0, 1, 0)}]
      [] f = "voxelbox" -> [item EXCEPT !.embed_voxels = @ \cup {Coord(0, 0, 0), Coord(1, 0, 0), Coord(0, 0, 1), Coord(1, 0, 1)}]
      [] f = "faces" -> [item EXCEPT
                            !.embed_faces = <<EmbedFace(Vec(64, 64, 128), Vec(128, 128, 4), "SML")>>,
                            !.overlays = <<Overlay(Str("signage/arrow", LOWER), Vec(64, 64, 0), Vec(32, 32, 0), 90),
                                           Overlay(EmptyStr, Vec(0, 0, 0), Vec(1, 1, 0), 0)>>]

RECURSIVE ApplyFeatures(_, _, _)
ApplyFeatures(item, fs, i) ==
    IF i > Len(Features) THEN item
    ELSE ApplyFeatures(IF Features[i] \in fs THEN ApplyFeature(item, Features[i]) ELSE item, fs, i + 1)

\* The sets of at most MaxFeatures features.
FeatureSets ==
    {{}} \cup {{Features[pick[j]] : j \in 1 .. MaxFeatures} : pick \in [1 .. MaxFeatures -> DOMAIN Features]}
RTInputs ==
    {[fam |-> "rt", features |-> fs,
      item |-> ApplyFeatures(Item(Str("item_rt", UPPER), "UNCLASSED"), fs, 1)] : fs \in FeatureSets}

\* Family "type": an Item block with a sequence of Type keys, an Author key
\* after each.
MaxTypes == 2
TypeValues == {EmptyStr, Str("item_a", LOWER), Str("item_b", UPPER)}
TypeInputs == {[fam |-> "type", types |-> t] : t \in SeqsUpTo(TypeValues, MaxTypes)}
TypeDoc(i) ==
    Doc(<<K("item"), NL, LB, NL>>
        \o Flatten([j \in DOMAIN i.types |-> Line("type", i.types[j]) \o Line("author", Str("valve", LOWER))])
        \o <<K("editor"), NL, LB, NL, RB, NL>>
        \o <<RB, NL>>)

\* Family "surf": an Editor block with a sequence of InvalidSurface keys;
\* each value is given with the surfaces its words name.
MaxSurfKeys == 2
SurfValues ==
    {[text |-> <<Name("wall", UPPER), Name("floor", UPPER)>>, members |-> {"WALL", "FLOOR"}],
     [text |-> <<Name("floor", LOWER)>>, members |-> {"FLOOR"}],
     [text |-> <<Name("walls", LOWER), Name("ceiling", MIXED)>>, members |-> {"WALL", "CEIL"}],
     [text |-> <<Name("ceil", UPPER), Name("wall", LOWER)>>, members |-> {"CEIL", "WALL"}],
     [text |-> <<Name("wall", LOWER), Name("walls", UPPER)>>, members |-> {"WALL"}],
     [text |-> EmptyStr, members |-> {}]}
SurfInputs == {[fam |-> "surf", keys |-> k] : k \in SeqsUpTo(SurfValues, MaxSurfKeys)}
SurfDoc(i) ==
    Doc(<<K("item"), NL, LB, NL>> \o Line("type", Str("item_b", UPPER))
        \o <<K("editor"), NL, LB, NL>>
        \o Flatten([j \in DOMAIN i.keys |-> Line("invalidsurface", i.keys[j].text)])
        \o <<RB, NL, RB, NL>>)

\* Family "min": an Item block with a Type, an Editor block holding
\* MovementHandle HANDLE_NONE and OccupiesVoxel 1, and an empty Exporting
\* block; the identifier and the handle in either letter case.
MinInputs == {[fam |-> "min", id |-> Str("item_test", c), handle |-> Str("handle_none", h)] :
                 c \in {LOWER, UPPER, MIXED}, h \in {LOWER, UPPER}}
MinDoc(i) ==
    Doc(<<K("item"), NL, LB, NL>> \o Line("type", i.id)
        \o <<K("editor"), NL, LB, NL>>
        \o Line("movementhandle", i.handle) \o Line("occupiesvoxel", IntStr(1))
        \o <<RB, NL>>
        \o <<K("exporting"), NL, LB, NL, RB, NL>>
        \o <<RB, NL>>)

\* Family "flags": items in memory with each combination of the six boolean
\* flags, to be written.
FlagAttrs == {"anchor_goo", "anchor_barriers", "occupies_voxel", "copiable", "deletable", "pseduo_handle"}
FlagItem(on) ==
    [Item(Str("item_flags", UPPER), "UNCLASSED") EXCEPT
        !.anchor_goo = "anchor_goo" \in on,
        !.anchor_barriers = "anchor_barriers" \in on,
        !.occupies_voxel = "occupies_voxel" \in on,
        !.copiable = "copiable" \in on,
        !.deletable = "deletable" \in on,
        !.pseduo_handle = "pseduo_handle" \in on]
FlagInputs == {[fam |-> "flags", on |-> on, item |-> FlagItem(on)] : on \in SUBSET FlagAttrs}

\* Family "model": a Subtype with one model, given as a bare name or in a
\* block, with some suffix or none.
ModelSuffixes == {"", "mdl", "MDL", "3ds", "vmf"}
ModelInputs == {[fam |-> "model", form |-> f, suffix |-> x] : f \in {"scalar", "block"}, x \in ModelSuffixes}
ModelDoc(i) ==
    Doc(<<K("item"), NL, LB, NL>> \o Line("type", Str("item_b", UPPER))
        \o <<K("editor"), NL, LB, NL, K("subtype"), NL, LB, NL>>
        \o (IF i.form = "scalar" THEN Line("model", File("cube", i.suffix))
            ELSE <<K("model"), NL, LB, NL>> \o Line("texturename", File("cube", "vtf"))
                 \o Line("modelname", File("cube", i.suffix)) \o <<RB, NL>>)
        \o <<RB, NL, RB, NL, RB, NL>>)

\* Family "icon": items in memory with one subtype on the palette, its icon
\* a VTF or a PNG, to be written and parsed back.
IconInputs ==
    {[fam |-> "icon", suffix |-> x,
      item |-> WithSubType(WithSubType(WithSubType(Item(Str("item_icon", UPPER), "UNCLASSED"),
                                                   "pal_name", Str("cube", UPPER)),
                                       "pal_pos", Some(<<4, 2>>)),
                           "pal_icon", Some(File("palette/cube", x)))] : x \in {"vtf", "png"}}

\* Family "num": one numeric or vector field of an item, with a well-formed
\* or a malformed literal for its value.
IntFields == {"index", "priority", "groupid", "rotation", "entitycount", "brushcount",
              "brushsidecount", "anim"}
VecFields == {"offset", "center", "dimensions"}
Literals ==
    [int |-> IntStr(7),
     vec |-> Ints3(1, 2, 3),
     word |-> Str("abc", LOWER),
     pair |-> <<IntWord(1), IntWord(2)>>,
     mixed |-> <<IntWord(1), Name("x", LOWER), IntWord(3)>>]
\* The literals that are well-formed for a field.
WellFormed(field) == IF field \in IntFields THEN {"int"} ELSE {"vec"}
NumInputs == {[fam |-> "num", field |-> f, lit |-> l] : f \in IntFields \cup VecFields, l \in DOMAIN Literals}
NumValue(i, field, good) == IF i.field = field THEN Literals[i.lit] ELSE good
NumDoc(i) ==
    Doc(<<K("item"), NL, LB, NL>> \o Line("type", Str("item_b", UPPER))
        \o <<K("editor"), NL, LB, NL, K("animations"), NL, LB, NL>>
        \o <<S(Str("anim_idle", UPPER)), S(NumValue(i, "anim", IntStr(3))), NL, RB, NL, RB, NL>>
        \o <<K("properties"), NL, LB, NL, K("connectioncount"), NL, LB, NL>>
        \o Line("defaultvalue", IntStr(2)) \o Line("index", NumValue(i, "index", IntStr(1)))
        \o <<RB, NL, RB, NL>>
        \o <<K("exporting"), NL, LB, NL>>
        \o <<K("instances"), NL, LB, NL, S(IntStr(0)), NL, LB, NL>>
        \o Line("name", File("cube", "vmf"))
        \o Line("entitycount", NumValue(i, "entitycount", IntStr(5)))
        \o Line("brushcount", NumValue(i, "brushcount", IntStr(6)))
        \o Line("brushsidecount", NumValue(i, "brushsidecount", IntStr(7)))
        \o <<RB, NL, RB, NL>>
        \o Line("offset", NumValue(i, "offset", Ints3(64, 64, 0)))
        \o <<K("connectionpoints"), NL, LB, NL, K("point"), NL, LB, NL>>
        \o Line("dir", Ints3(0, 1, 0)) \o Line("pos", Ints3(1, 2, 0)) \o Line("signageoffset", Ints3(2, 2, 0))
        \o Line("priority", NumValue(i, "priority", IntStr(1)))
        \o Line("groupid", NumValue(i, "groupid", IntStr(4)))
        \o <<RB, NL, RB, NL>>
        \o <<K("embedface"), NL, LB, NL, K("solid"), NL, LB, NL>>
        \o Line("center", Ints3(64, 64, 128))
        \o Line("dimensions", NumValue(i, "dimensions", Ints3(128, 128, 4)))
        \o <<RB, NL, RB, NL>>
        \o <<K("overlay"), NL, LB, NL>>
        \o Line("center", NumValue(i, "center", Ints3(64, 64, 0))) \o Line("dimensions", Ints3(32, 32, 0))
        \o Line("material", Str("signage/arrow", LOWER))
        \o Line("rotation", NumValue(i, "rotation", IntStr(90)))
        \o <<RB, NL>>
        \o <<RB, NL, RB, NL>>)

\* Family "dir": one Point whose Dir is a name in some letter case, a vector
\* of three integers, or a text that is neither.
MaxDirCoord == 2
DirNames == {"left", "right", "up", "down", "north"}
DirInputs ==
    {[fam |-> "dir", kind |-> "name", name |-> nm, x |-> 0, y |-> 0, z |-> 0, text |-> Str(nm, c)] :
        nm \in DirNames, c \in {LOWER, UPPER, MIXED}}
    \cup {[fam |-> "dir", kind |-> "vec", name |-> "", x |-> x, y |-> y, z |-> z, text |-> Ints3(x, y, z)] :
            x \in -MaxDirCoord .. MaxDirCoord, y \in -MaxDirCoord .. MaxDirCoord, z \in 0 .. 1}
    \cup {[fam |-> "dir", kind |-> "text", name |-> "", x |-> 0, y |-> 0, z |-> 0, text |-> t] :
            t \in {<<IntWord(1), IntWord(0)>>, <<IntWord(1), IntWord(0), IntWord(0), IntWord(0)>>,
                   <<IntWord(1), Name("x", LOWER), IntWord(0)>>, EmptyStr}}
DirDoc(i) ==
    Doc(<<K("item"), NL, LB, NL>> \o Line("type", Str("item_b", UPPER))
        \o <<K("exporting"), NL, LB, NL, K("connectionpoints"), NL, LB, NL, K("point"), NL, LB, NL>>
        \o Line("dir", i.text) \o Line("pos", Ints3(1, 2, 0)) \o Line("signageoffset", Ints3(2, 2, 0))
        \o <<RB, NL, RB, NL, RB, NL, RB, NL>>)

\* Family "points": Point blocks in every interleaving of the four sides,
\* each named in its Dir; the j-th point has the position (j, 0, 0), and its
\* priority rises or falls with j.
MaxPoints == 3
PointInputs ==
    {[fam |-> "points", dirs |-> d, rising |-> up] :
        d \in UNION {[1 .. n -> DOMAIN ConnSideNames] : n \in 1 .. MaxPoints}, up \in BOOLEAN}
PointPriority(i, j) == IF i.rising THEN j ELSE Len(i.dirs) + 1 - j
PointsDoc(i) ==
    Doc(<<K("item"), NL, LB, NL>> \o Line("type", Str("item_b", UPPER))
        \o <<K("exporting"), NL, LB, NL, K("connectionpoints"), NL, LB, NL>>
        \o Flatten([j \in DOMAIN i.dirs |->
              <<K("point"), NL, LB, NL>>
              \o Line("dir", Str(i.dirs[j], MIXED))
              \o Line("pos", Ints3(j, 0, 0))
              \o Line("signageoffset", Ints3(0, j, 0))
              \o Line("priority", IntStr(PointPriority(i, j)))
              \o <<RB, NL>>])
        \o <<RB, NL, RB, NL, RB, NL>>)

\* Family "cust": instance declarations labelled alt, with the bee2_ prefix
\* in some letter case or without it, or labelled 0; each gives a bare file
\* name or a block with counts.  The j-th declaration names inst<j>.vmf.
MaxCustDecls == 2
CustLabels ==
    {[numbered |-> FALSE, c |-> c, p |-> TRUE] : c \in {LOWER, UPPER, MIXED}}
    \cup {[numbered |-> FALSE, c |-> LOWER, p |-> FALSE], [numbered |-> TRUE, c |-> LOWER, p |-> FALSE]}
CustDecls == [label : CustLabels, form : {"scalar", "block"}]
CustInputs ==
    {[fam |-> "cust", decls |-> d] : d \in SeqsUpTo(CustDecls, MaxCustDecls) \ {<<>>}}
CustLabel(l) ==
    IF l.numbered THEN IntStr(0) ELSE <<[Name("alt", l.c) EXCEPT !.p = l.p]>>
CustDeclTokens(decls, j) ==
    IF decls[j].form = "scalar"
    THEN <<S(CustLabel(decls[j].label)), S(FileN("inst", j, "vmf")), NL>>
    ELSE <<S(CustLabel(decls[j].label)), NL, LB, NL>>
         \o Line("name", FileN("inst", j, "vmf"))
         \o Line("entitycount", IntStr(j))
         \o Line("brushcount", IntStr(j + 1))
         \o Line("brushsidecount", IntStr(j + 2))
         \o <<RB, NL>>
CustDoc(i) ==
    Doc(<<K("item"), NL, LB, NL>> \o Line("type", Str("item_b", UPPER))
        \o <<K("exporting"), NL, LB, NL, K("instances"), NL, LB, NL>>
        \o Flatten([j \in DOMAIN i.decls |-> CustDeclTokens(i.decls, j)])
        \o <<RB, NL, RB, NL, RB, NL>>)

\* Family "edflags": an Editor block of up to MaxEditorKeys lines, each one
\* of CanAnchorOnBarriers, CanAnchorOnGoo and PseudoHandle with 0 or 1.
MaxEditorKeys == 2
EditorLines == [key : {"cananchoronbarriers", "cananchorongoo", "pseudohandle"}, on : BOOLEAN]
EdFlagInputs == {[fam |-> "edflags", lines |-> l] : l \in SeqsUpTo(EditorLines, MaxEditorKeys)}
EdFlagDoc(i) ==
    Doc(<<K("item"), NL, LB, NL>> \o Line("type", Str("item_b", UPPER))
        \o <<K("editor"), NL, LB, NL>>
        \o Flatten([j \in DOMAIN i.lines |->
              Line(i.lines[j].key, IntStr(IF i.lines[j].on THEN 1 ELSE 0))])
        \o <<RB, NL, RB, NL>>)

\* Family "prop": a property named in the Editor block's SubtypeProperty or
\* as a key of the Properties block; the name is in the registry or not.
PropNames == {"connectioncount", "startenabled", "bogus"}
PropInputs == {[fam |-> "prop", at |-> a, name |-> nm, c |-> c] :
                 a \in {"subtypeproperty", "properties"}, nm \in PropNames, c \in {LOWER, UPPER, MIXED}}
PropDoc(i) ==
    Doc(<<K("item"), NL, LB, NL>> \o Line("type", Str("item_b", UPPER))
        \o (IF i.at = "subtypeproperty"
            THEN <<K("editor"), NL, LB, NL>> \o Line("subtypeproperty", Str(i.name, i.c)) \o <<RB, NL>>
            ELSE <<K("properties"), NL, LB, NL, S(Str(i.name, i.c)), NL, LB, NL>>
                 \o Line("defaultvalue", IntStr(1)) \o Line("index", IntStr(1))
                 \o <<RB, NL, RB, NL>>)
        \o <<RB, NL>>)

\* Family "slot": the slots 0 .. pre - 1 declared in order, the j-th with
\* the file inst<j>.vmf, and then one slot, negative or not, with last.vmf.
MaxNegSlot == 2
SlotInputs == {[fam |-> "slot", pre |-> n, slot |-> k] : n \in 0 .. MaxNegSlot, k \in -MaxNegSlot .. MaxNegSlot}
SlotDoc(i) ==
    Doc(<<K("item"), NL, LB, NL>> \o Line("type", Str("item_b", UPPER))
        \o <<K("exporting"), NL, LB, NL, K("instances"), NL, LB, NL>>
        \o Flatten([j \in 1 .. i.pre |-> <<S(IntStr(j - 1)), S(FileN("inst", j, "vmf")), NL>>])
        \o <<S(IntStr(i.slot)), S(File("last", "vmf")), NL>>
        \o <<RB, NL, RB, NL, RB, NL>>)

\* The document of an input that is parsed.
InputDoc(i) ==
    CASE i.fam = "unknown" -> UnknownDoc(i)
      [] i.fam = "skip" -> SkipDoc(i)
      [] i.fam = "inst" -> InstDoc(i)
      [] i.fam = "vox" -> VoxDoc(i)
      [] i.fam = "dup" -> DupDoc(i)
      [] i.fam = "trunc" -> TruncDoc(i)
      [] i.fam = "type" -> TypeDoc(i)
      [] i.fam = "surf" -> SurfDoc(i)
      [] i.fam = "min" -> MinDoc(i)
      [] i.fam = "model" -> ModelDoc(i)
      [] i.fam = "num" -> NumDoc(i)
      [] i.fam = "dir" -> DirDoc(i)
      [] i.fam = "points" -> PointsDoc(i)
      [] i.fam = "cust" -> CustDoc(i)
      [] i.fam = "edflags" -> EdFlagDoc(i)
      [] i.fam = "prop" -> PropDoc(i)
      [] i.fam = "slot" -> SlotDoc(i)

----------------------------------------------------------------------------
(* The state machine.  A document is parsed one top-level key at a time    *)
(* (Item.parse); an item in memory is first written, its text parsed, and  *)
(* the item parsed written again.  bounding_boxes runs one box at a time.  *)

VARIABLES
    inp,     \* the input: a document's description, or an item in memory
    toks,    \* the tokens of the text being parsed
    pc,      \* export, header, keys, done, failed, end; idle when unused
    res,     \* Item.parse's position, [items, icons] and log; its exception
    text0,   \* the text written for the item in memory
    text1,   \* the text written for the item parsed back
    voxels,  \* bounding_boxes: its argument
    todo,    \* bounding_boxes: the points still to be done
    boxes,   \* bounding_boxes: the boxes emitted so far
    coord_cache,  \* the module's _coord_cache
    calls,   \* Coord.parse: the frame of each thread's call
    SCREEN_CANCEL_FLAG,  \* loadScreen: _SCREEN_CANCEL_FLAG, by screen
    PIPE_MAIN_REC,  \* loadScreen: the daemon's messages not yet received
    sent,    \* loadScreen: the last command sent for each screen
    active,  \* loadScreen: each screen's attribute `active`
    frame,   \* loadScreen: the statement the main process is running
    outcome, \* loadScreen: how the statement before ended, until the next begins
    since    \* loadScreen: cancels sent for a screen since it last raised

vars == <<inp, toks, pc, res, text0, text1, voxels, todo, boxes, coord_cache, calls,
          SCREEN_CANCEL_FLAG, PIPE_MAIN_REC, sent, active, frame, outcome, since>>
parser_vars == <<inp, toks, pc, res, text0, text1>>
bbox_vars == <<voxels, todo, boxes>>
cache_vars == <<coord_cache, calls>>
ls_vars == <<SCREEN_CANCEL_FLAG, PIPE_MAIN_REC, sent, active, frame, outcome, since>>
other_vars == <<parser_vars, bbox_vars, cache_vars>>

ParserIdle ==
    /\ inp = [fam |-> "none"]
    /\ toks = <<>>
    /\ pc = "idle"
    /\ res = Ok(0, NoDocument, <<>>)
    /\ text0 = <<>>
    /\ text1 = <<>>
BBoxIdle == voxels = {} /\ todo = {} /\ boxes = <<>>

\* The threads that call Coord.parse, and the frame of a thread outside it.
NThreads == 2
Threads == 1 .. NThreads
NoCall == [pc |-> "idle", value |-> EmptyStr, x |-> 0, y |-> 0, z |-> 0, result |-> None]
\* _coord_cache = {}
EmptyCache == [k \in {} |-> k]
CacheIdle == coord_cache = EmptyCache /\ calls = [t \in Threads |-> NoCall]

----------------------------------------------------------------------------
(* loadScreen.py: the main process sends commands for its load screens to  *)
(* the daemon and reads the daemon's messages after each one.  The main    *)
(* process runs one statement at a time; the daemon sends when it likes.   *)

\* The two load screens that exist, S and T.
Screens == {"S", "T"}
\* The most cancels the daemon sends for a screen before the screen raises,
\* and the most messages waiting in the pipe.
MaxPending == 2

\* No statement is running.  A running statement has its kind, the screen
\* whose _send_msg is called, the call's place and phase, the exception
\* that is propagating, the operations left in a with block's body, and
\* surpress_screens' locals: the screens still to visit and `active`.  It
\* also notes whether no cancel was waiting for the screen when it began,
\* and which screens were shown then.
NoFrame ==
    [stmt |-> "none", self |-> "", at |-> "", phase |-> "", exc |-> "",
     body |-> 0, rest |-> {}, active |-> <<>>, shown |-> {}, fresh |-> TRUE]
NoOutcome == [stmt |-> "none", self |-> "", at |-> "", exc |-> "", shown |-> {}, fresh |-> TRUE]

LSIdle ==
    /\ SCREEN_CANCEL_FLAG = [s \in Screens |-> FALSE]
    /\ PIPE_MAIN_REC = <<>>
    /\ sent = [s \in Screens |-> "init"]
    /\ active = [s \in Screens |-> FALSE]
    /\ frame = NoFrame
    /\ outcome = NoOutcome
    /\ since = [s \in Screens |-> 0]

\* The command each call of _send_msg sends.
Command(at) ==
    CASE at \in {"step", "body_step"} -> "step"
      [] at \in {"show_reset", "reset", "enter_reset", "exit_reset"} -> "reset"
      [] at \in {"show_show", "enter_show", "unsuppress"} -> "show"
      [] at = "suppress" -> "hide"

\* A call of _send_msg on a screen, about to send.
Call(f, at) == [f EXCEPT !.at = at, !.phase = "send"]
\* The statement ends, with the exception that leaves it or with none.
Done(f, exc) == [f EXCEPT !.phase = "done", !.exc = exc]

\* A faulty handler, which marks the screen that is sending; the property
\* of C29 rejects it.
mark_cancelled_self(flags, self, arg) == [flags EXCEPT ![self] = TRUE]

\* _SCREEN_CANCEL_FLAG[arg] = True
mark_cancelled(flags, self, arg) == [flags EXCEPT ![arg] = TRUE]

\* Where the statement goes on when _send_msg returns.
after_return(f) ==
    CASE f.at \in {"step", "show_show", "reset"} -> Done(f, "")
      [] f.at = "show_reset" -> Call(f, "show_show")
      [] f.at = "enter_reset" -> Call(f, "enter_show")
      [] f.at = "enter_show" -> IF f.body > 0 THEN Call(f, "body_step") ELSE Call(f, "exit_reset")
      [] f.at = "body_step" -> Call(f, "exit_reset")
      [] f.at = "exit_reset" -> Done(f, IF f.exc = "Cancelled" THEN "" ELSE f.exc)
      [] f.at = "suppress" -> [f EXCEPT !.at = "entry", !.phase = "", !.active = Append(@, f.self)]
      [] f.at = "unsuppress" -> [f EXCEPT !.at = "restore", !.phase = "", !.active = Tail(@)]

\* Where the statement goes on when _send_msg raises Cancelled: in the body
\* of a with block __exit__ is run with it; anywhere else it propagates.
after_raise(f) ==
    IF f.at = "body_step" THEN [Call(f, "exit_reset") EXCEPT !.exc = "Cancelled"]
    ELSE Done(f, "Cancelled")

\* screen.active after the call returned: surpress_screens sets it.
active_after(act, f) ==
    CASE f.at = "suppress" -> [act EXCEPT ![f.self] = FALSE]
      [] f.at = "unsuppress" -> [act EXCEPT ![f.self] = TRUE]
      [] OTHER -> act

InitParse(inputs) ==
    /\ inp \in inputs
    /\ toks = Tokenize(InputDoc(inp))
    /\ pc = "header"
    /\ res = Ok(0, NoDocument, <<>>)
    /\ text0 = <<>>
    /\ text1 = <<>>

InitRoundTrip ==
    /\ inp \in RTInputs \cup FlagInputs \cup IconInputs
    /\ toks = <<>>
    /\ pc = "export"
    /\ res = Ok(0, NoDocument, <<>>)
    /\ text0 = <<>>
    /\ text1 = <<>>

Init ==
    /\ BBoxIdle
    /\ CacheIdle
    /\ LSIdle
    /\ \/ InitParse(UnknownInputs)
       \/ InitParse(SkipInputs)
       \/ InitParse(InstInputs)
       \/ InitParse(VoxInputs)
       \/ InitParse(DupInputs)
       \/ InitParse(TruncInputs)
       \/ InitParse(TypeInputs)
       \/ InitParse(SurfInputs)
       \/ InitParse(MinInputs)
       \/ InitParse(ModelInputs)
       \/ InitParse(NumInputs)
       \/ InitParse(DirInputs)
       \/ InitParse(PointInputs)
       \/ InitParse(CustInputs)
       \/ InitParse(EdFlagInputs)
       \/ InitParse(PropInputs)
       \/ InitParse(SlotInputs)
       \/ InitRoundTrip

\* export_one writes the item in memory, in an ItemData block.
Export ==
    /\ pc = "export"
    /\ \E bb \in bounding_boxes(inp.item.embed_voxels) :
          /\ text0' = Doc(export_one(inp.item, bb))
          /\ toks' = Tokenize(Doc(export_one(inp.item, bb)))
    /\ pc' = "header"
    /\ UNCHANGED <<inp, res, text1, bbox_vars, cache_vars, ls_vars>>

\* Item.parse, up to the loop over the ItemData block.
ParseHeader ==
    /\ pc = "header"
    /\ res' = finish(parse_header(toks))
    /\ pc' = IF Failed(res') THEN "failed" ELSE "keys"
    /\ UNCHANGED <<inp, toks, text0, text1, bbox_vars, cache_vars, ls_vars>>

\* Item.parse: one turn of the loop over the ItemData block, or its end.
ParseKey ==
    /\ pc = "keys"
    /\ LET n == block_next(toks, res.pos) IN
          /\ res' = finish(CASE n.kind = "end" -> At(res, n.pos)
                             [] n.kind = "eof" -> error("Block is not closed!", At(res, n.pos))
                             [] n.kind = "bad" -> error("Unexpected token", At(res, n.pos))
                             [] n.kind = "key" -> parse_key(toks, At(res, n.pos), n.v))
          /\ pc' = IF Failed(res') THEN "failed" ELSE IF n.kind = "end" THEN "done" ELSE "keys"
    /\ UNCHANGED <<inp, toks, text0, text1, bbox_vars, cache_vars, ls_vars>>

\* The item parsed back, when the text held one.
ParsedItem == res.v.items[1][2]

\* The families whose parsed item is written.
Rewritten == {"rt", "surf", "model", "dir", "points", "edflags"}

\* export_one writes the item parsed back.
ReExport ==
    /\ pc = "done"
    /\ inp.fam \in Rewritten
    /\ Len(res.v.items) = 1
    /\ \E bb \in bounding_boxes(ParsedItem.embed_voxels) :
          text1' = Doc(export_one(ParsedItem, bb))
    /\ pc' = "end"
    /\ UNCHANGED <<inp, toks, res, text0, bbox_vars, cache_vars, ls_vars>>

Next == Export \/ ParseHeader \/ ParseKey \/ ReExport

Spec == Init /\ [][Next]_vars

\* The sets bounding_boxes is given: up to MaxVoxels points of a small grid.
MaxVoxels == 4
BBGrid == {Coord(x, y, z) : x \in 0 .. 2, y \in 0 .. 1, z \in 0 .. 1}

InitBB ==
    /\ ParserIdle
    /\ CacheIdle
    /\ LSIdle
    /\ voxels \in {s \in SUBSET BBGrid : Cardinality(s) <= MaxVoxels}
    /\ todo = voxels
    /\ boxes = <<>>

\* bounding_boxes: one turn of `while todo`: a seed is popped, its box is
\* grown, the box's points are discarded and the box is yielded.
bounding_boxes_step ==
    /\ todo # {}
    /\ \E seed \in todo :
          LET box == grow_box(todo \ {seed}, seed) IN
             /\ todo' = (todo \ {seed}) \ BoxPoints(box[1], box[2])
             /\ boxes' = Append(boxes, box)
    /\ UNCHANGED <<voxels, parser_vars, cache_vars, ls_vars>>

NextBB == bounding_boxes_step

SpecBB == InitBB /\ [][NextBB]_vars

\* The texts the threads give Coord.parse: the coordinates (x, 0, 0) of a
\* short row, and a text of one number.
MaxCacheCoord == 1
CoordTexts == {Ints3(x, 0, 0) : x \in 0 .. MaxCacheCoord} \cup {IntStr(1)}

\* _coord_cache[x, y, z]: the value, or None for the KeyError.
cache_lookup(cache, x, y, z) ==
    IF <<x, y, z>> \in DOMAIN cache THEN Some(cache[<<x, y, z>>]) ELSE None

\* A faulty insertion, which leaves the new entry alone in the cache; the
\* property of C19 rejects it.
cache_insert_alone(cache, result) == [k \in {result} |-> result]

\* _coord_cache[result] = result
cache_insert(cache, result) ==
    [k \in DOMAIN cache \cup {result} |-> IF k = result THEN result ELSE cache[k]]

InitCC == ParserIdle /\ BBoxIdle /\ CacheIdle /\ LSIdle

\* Coord.parse, up to the three int() calls: the text is split and its
\* parts are converted, or the error is raised.
Coord_parse_enter(t) ==
    /\ calls[t].pc = "idle"
    /\ \E value \in CoordTexts :
          LET c == Coord_parse(value) IN
          calls' = [calls EXCEPT ![t] =
                      IF c.ok
                      THEN [NoCall EXCEPT !.pc = "lookup", !.value = value,
                                          !.x = c.v[1], !.y = c.v[2], !.z = c.v[3]]
                      ELSE [NoCall EXCEPT !.pc = "raise", !.value = value]]
    /\ UNCHANGED <<coord_cache, parser_vars, bbox_vars, ls_vars>>

\* try: return _coord_cache[x, y, z] / except KeyError:
Coord_parse_lookup(t) ==
    /\ calls[t].pc = "lookup"
    /\ LET found == cache_lookup(coord_cache, calls[t].x, calls[t].y, calls[t].z) IN
       calls' = [calls EXCEPT ![t] =
                   IF found # None
                   THEN [@ EXCEPT !.pc = "return_cached", !.result = found]
                   ELSE [@ EXCEPT !.pc = "construct"]]
    /\ UNCHANGED <<coord_cache, parser_vars, bbox_vars, ls_vars>>

\* result = cls(x, y, z)
Coord_parse_construct(t) ==
    /\ calls[t].pc = "construct"
    /\ calls' = [calls EXCEPT ![t].pc = "insert",
                              ![t].result = Some(Coord(calls[t].x, calls[t].y, calls[t].z))]
    /\ UNCHANGED <<coord_cache, parser_vars, bbox_vars, ls_vars>>

\* _coord_cache[result] = result
Coord_parse_insert(t) ==
    /\ calls[t].pc = "insert"
    /\ coord_cache' = cache_insert(coord_cache, calls[t].result[1])
    /\ calls' = [calls EXCEPT ![t].pc = "return_result"]
    /\ UNCHANGED <<parser_vars, bbox_vars, ls_vars>>

\* The call is over: its value has been returned or its error raised.
Coord_parse_leave(t) ==
    /\ calls[t].pc \in {"return_cached", "return_result", "raise"}
    /\ calls' = [calls EXCEPT ![t] = NoCall]
    /\ UNCHANGED <<coord_cache, parser_vars, bbox_vars, ls_vars>>

NextCC ==
    \E t \in Threads :
        \/ Coord_parse_enter(t)
        \/ Coord_parse_lookup(t)
        \/ Coord_parse_construct(t)
        \/ Coord_parse_insert(t)
        \/ Coord_parse_leave(t)

SpecCC == InitCC /\ [][NextCC]_vars

InitLS == ParserIdle /\ BBoxIdle /\ CacheIdle /\ LSIdle

\* The statement goes on with the frame `next`, or ends.
Continue(next) ==
    IF next.phase = "done"
    THEN /\ frame' = NoFrame
         /\ outcome' = [stmt |-> next.stmt, self |-> next.self, at |-> next.at, exc |-> next.exc,
                        shown |-> next.shown, fresh |-> next.fresh]
    ELSE /\ frame' = next
         /\ UNCHANGED outcome

\* screen.step(stage)
LoadScreen_step(s) ==
    /\ frame = NoFrame
    /\ frame' = Call([NoFrame EXCEPT !.stmt = "step", !.self = s], "step")
    /\ outcome' = NoOutcome
    /\ UNCHANGED <<SCREEN_CANCEL_FLAG, PIPE_MAIN_REC, sent, active, since, other_vars>>

\* screen.show()
LoadScreen_show(s) ==
    /\ frame = NoFrame
    /\ frame' = Call([NoFrame EXCEPT !.stmt = "show", !.self = s], "show_reset")
    /\ outcome' = NoOutcome
    /\ UNCHANGED <<SCREEN_CANCEL_FLAG, PIPE_MAIN_REC, sent, active, since, other_vars>>

\* screen.reset()
LoadScreen_reset(s) ==
    /\ frame = NoFrame
    /\ frame' = Call([NoFrame EXCEPT !.stmt = "reset", !.self = s], "reset")
    /\ outcome' = NoOutcome
    /\ UNCHANGED <<SCREEN_CANCEL_FLAG, PIPE_MAIN_REC, sent, active, since, other_vars>>

\* `with screen:` around a body of no operation or of one step: __enter__
\* calls show().
LoadScreen_with(s) ==
    /\ frame = NoFrame
    /\ \E body \in 0 .. 1 :
          frame' = Call([NoFrame EXCEPT !.stmt = "with", !.self = s, !.body = body,
                                        !.fresh = (since[s] = 0)], "enter_reset")
    /\ outcome' = NoOutcome
    /\ UNCHANGED <<SCREEN_CANCEL_FLAG, PIPE_MAIN_REC, sent, active, since, other_vars>>

\* `with surpress_screens():` is entered; the screens shown now are noted.
surpress_screens_enter ==
    /\ frame = NoFrame
    /\ frame' = [NoFrame EXCEPT !.stmt = "surpress", !.at = "entry", !.rest = Screens,
                                !.shown = {s \in Screens : sent[s] = "show"}]
    /\ outcome' = NoOutcome
    /\ UNCHANGED <<SCREEN_CANCEL_FLAG, PIPE_MAIN_REC, sent, active, since, other_vars>>

\* surpress_screens: `for screen in _ALL_SCREENS`, one screen: one that is
\* not active is passed over, an active one is suppressed.
surpress_screens_loop ==
    /\ frame.stmt = "surpress" /\ frame.at = "entry" /\ frame.phase = ""
    /\ IF frame.rest = {}
       THEN frame' = [frame EXCEPT !.at = "body"]
       ELSE \E s \in frame.rest :
               frame' = IF ~active[s] THEN [frame EXCEPT !.rest = @ \ {s}]
                        ELSE Call([frame EXCEPT !.rest = @ \ {s}, !.self = s], "suppress")
    /\ UNCHANGED <<SCREEN_CANCEL_FLAG, PIPE_MAIN_REC, sent, active, outcome, since, other_vars>>

\* surpress_screens: the body at the yield returns, or raises; what it
\* raises leaves the generator at the yield.
surpress_screens_body ==
    /\ frame.stmt = "surpress" /\ frame.at = "body"
    /\ \E raises \in BOOLEAN :
          Continue(IF raises THEN Done(frame, "Error") ELSE [frame EXCEPT !.at = "restore"])
    /\ UNCHANGED <<SCREEN_CANCEL_FLAG, PIPE_MAIN_REC, sent, active, since, other_vars>>

\* surpress_screens: `for screen in active`, one screen.
surpress_screens_restore ==
    /\ frame.stmt = "surpress" /\ frame.at = "restore" /\ frame.phase = ""
    /\ Continue(IF frame.active = <<>> THEN Done(frame, "")
                ELSE Call([frame EXCEPT !.self = Head(frame.active)], "unsuppress"))
    /\ UNCHANGED <<SCREEN_CANCEL_FLAG, PIPE_MAIN_REC, sent, active, since, other_vars>>

\* _send_msg: _PIPE_MAIN_SEND.send((command, id(self), args))
send_msg_send ==
    /\ frame.phase = "send"
    /\ sent' = [sent EXCEPT ![frame.self] = Command(frame.at)]
    /\ frame' = [frame EXCEPT !.phase = "poll"]
    /\ UNCHANGED <<SCREEN_CANCEL_FLAG, PIPE_MAIN_REC, active, outcome, since, other_vars>>

\* _send_msg: one turn of `while _PIPE_MAIN_REC.poll()`.
send_msg_recv ==
    /\ frame.phase = "poll"
    /\ PIPE_MAIN_REC # <<>>
    /\ PIPE_MAIN_REC' = Tail(PIPE_MAIN_REC)
    /\ SCREEN_CANCEL_FLAG' =
          IF Head(PIPE_MAIN_REC)[1] = "cancel"
          THEN mark_cancelled(SCREEN_CANCEL_FLAG, frame.self, Head(PIPE_MAIN_REC)[2])
          ELSE SCREEN_CANCEL_FLAG
    /\ UNCHANGED <<sent, active, frame, outcome, since, other_vars>>

\* _send_msg: poll() finds nothing; the flag of this screen is looked at,
\* and cleared when Cancelled is raised.
send_msg_check ==
    /\ frame.phase = "poll"
    /\ PIPE_MAIN_REC = <<>>
    /\ IF SCREEN_CANCEL_FLAG[frame.self]
       THEN /\ SCREEN_CANCEL_FLAG' = [SCREEN_CANCEL_FLAG EXCEPT ![frame.self] = FALSE]
            /\ since' = [since EXCEPT ![frame.self] = 0]
            /\ Continue(after_raise(frame))
            /\ UNCHANGED active
       ELSE /\ Continue(after_return(frame))
            /\ active' = active_after(active, frame)
            /\ UNCHANGED <<SCREEN_CANCEL_FLAG, since>>
    /\ UNCHANGED <<PIPE_MAIN_REC, sent, other_vars>>

\* The daemon sends ('cancel', id) for a screen, or ('main_toggle', arg).
daemon_send ==
    /\ Len(PIPE_MAIN_REC) < MaxPending
    /\ \/ \E s \in Screens :
             /\ since[s] < MaxPending
             /\ PIPE_MAIN_REC' = Append(PIPE_MAIN_REC, <<"cancel", s>>)
             /\ since' = [since EXCEPT ![s] = @ + 1]
       \/ /\ PIPE_MAIN_REC' = Append(PIPE_MAIN_REC, <<"main_toggle", "">>)
          /\ UNCHANGED since
    /\ UNCHANGED <<SCREEN_CANCEL_FLAG, sent, active, frame, outcome, other_vars>>

NextLS ==
    \/ \E s \in Screens : LoadScreen_step(s)
    \/ \E s \in Screens : LoadScreen_show(s)
    \/ \E s \in Screens : LoadScreen_reset(s)
    \/ \E s \in Screens : LoadScreen_with(s)
    \/ surpress_screens_enter
    \/ surpress_screens_loop
    \/ surpress_screens_body
    \/ surpress_screens_restore
    \/ send_msg_send
    \/ send_msg_recv
    \/ send_msg_check
    \/ daemon_send

SpecLS == InitLS /\ [][NextLS]_vars

----------------------------------------------------------------------------
(* Properties *)

\* The lattice points enclosed by the boxes emitted so far.
Covered == UNION {BoxPoints(boxes[i][1], boxes[i][2]) : i \in DOMAIN boxes}

\* C2: whichever seeds are popped, no box emitted by bounding_boxes(S)
\* encloses a point outside S, and once todo is empty the boxes emitted
\* enclose every point of S: their union is S exactly.
C2_BoxesCoverExactly ==
    /\ Covered \subseteq voxels
    /\ todo = {} => Covered = voxels

\* An L of three points has been decomposed into two boxes.
C2_Witness ==
    /\ voxels = {Coord(0, 0, 0), Coord(1, 0, 0), Coord(0, 1, 0)}
    /\ todo = {}
    /\ Len(boxes) = 2
    /\ Covered = voxels

\* Field-by-field equality of two records, the fields in `dicts` compared
\* as mappings.
FieldsEq(a, b, dicts) ==
    /\ DOMAIN a = DOMAIN b
    /\ \A k \in DOMAIN a : IF k \in dicts THEN DictEq(a[k], b[k]) ELSE a[k] = b[k]
SubTypesEq(a, b) ==
    /\ Len(a) = Len(b)
    /\ \A i \in DOMAIN a : FieldsEq(a[i], b[i], {"sounds", "anims"})
ItemEq(a, b) ==
    /\ FieldsEq([a EXCEPT !.subtypes = <<>>], [b EXCEPT !.subtypes = <<>>],
                {"animations", "properties", "cust_instances"})
    /\ SubTypesEq(a.subtypes, b.subtypes)

\* The parse of the text has ended, with a result or with an exception.
Parsed == pc \in {"done", "failed", "end"}

\* C1: the text written for a valid item in memory parses without error to
\* one item that is equal to the original field by field.
C1_RoundTrip ==
    (inp.fam = "rt" /\ Parsed) =>
        /\ pc # "failed"
        /\ Len(res.v.items) = 1
        /\ ItemEq(ParsedItem, inp.item)

\* C3: the text written for the item parsed back from the text of a valid
\* item is that text again.
C3_Idempotent ==
    /\ (inp.fam = "rt" /\ Parsed) => (pc # "failed" /\ Len(res.v.items) = 1)
    /\ (inp.fam = "rt" /\ pc = "end") => text1 = text0

\* C4: a key that is unknown where it stands, at the top level of the
\* ItemData block, in an Item block, in an Editor block or in a Subtype
\* block, always ends the parse with a TokenizerError: the parse never gets
\* past that key, and no document is returned.
C4_UnknownKeyIsFatal ==
    (inp.fam = "unknown" /\ inp.ctx \in FatalContexts) =>
        /\ pc # "done"
        /\ pc = "keys" => Len(res.v.items) <= 1
        /\ pc = "failed" => res.exc = TokenizerError /\ res.v = NoDocument

\* An unknown key with a block for its value has been refused in a Subtype.
C4_Witness ==
    /\ inp.fam = "unknown"
    /\ inp.ctx = "subtype"
    /\ inp.key = BogusKey
    /\ inp.form.kind = "block"
    /\ pc = "failed"
    /\ res.msg = "Unknown subtype option"

\* C5: an unknown key of the Exporting block is skipped with its value,
\* scalar or block: the parse ends as the parse of the same document without
\* that key and value does, with the same items.
C5_UnknownExportKeySkipped ==
    (inp.fam = "skip" /\ Parsed) =>
        /\ pc = "done"
        /\ res.v = Item_parse(Tokenize(SkipDocWithout(inp))).v

\* The declarations of an input of the family "inst" for slot i.
DeclsOf(decls, i) == {j \in DOMAIN decls : decls[j].slot = i}
LastDecl(decls, i) == CHOOSE j \in DeclsOf(decls, i) : \A k \in DeclsOf(decls, i) : k <= j
HighestSlot(decls) == CHOOSE m \in {decls[j].slot : j \in DOMAIN decls} : \A j \in DOMAIN decls : decls[j].slot <= m
\* The instance list of the only item of the document parsed.
ParsedInstances == ParsedItem.instances

\* C6: after any sequence of declarations of numbered slots, the instance
\* list is one longer than the highest slot declared, entry i is the
\* instance declared last for slot i, and a slot never declared holds the
\* empty placeholder.
C6_InstanceSlots ==
    (inp.fam = "inst" /\ Parsed) =>
        /\ pc = "done"
        /\ Len(res.v.items) = 1
        /\ Len(ParsedInstances) = IF inp.decls = <<>> THEN 0 ELSE HighestSlot(inp.decls) + 1
        /\ \A i \in 0 .. Len(ParsedInstances) - 1 :
              ParsedInstances[i + 1] =
                  IF DeclsOf(inp.decls, i) = {}
                  THEN [inst |-> EmptyStr, ent_count |-> 0, brush_count |-> 0, face_count |-> 0]
                  ELSE DeclInst(inp.decls, LastDecl(inp.decls, i))

\* Slot 3 declared on an empty list: four entries, the first three empty.
C6_Witness ==
    /\ inp.fam = "inst"
    /\ Len(inp.decls) = 1
    /\ inp.decls[1].slot = 3
    /\ pc = "done"
    /\ Len(ParsedInstances) = 4
    /\ \A i \in 1 .. 3 : ParsedInstances[i].inst = EmptyStr
    /\ ParsedInstances[4].inst # EmptyStr

\* The lattice points between two corners, whichever way round they are.
InclusiveBox(a, b) ==
    {q \in {Coord(x, y, z) : x \in 0 .. 1, y \in 0 .. 1, z \in 0 .. 1} :
        \A ax \in 1 .. 3 : (a[ax] <= q[ax] /\ q[ax] <= b[ax]) \/ (b[ax] <= q[ax] /\ q[ax] <= a[ax])}

\* C7: the embedded voxels of an item are the union, over the Volume and
\* Voxel entries of its EmbeddedVoxels block, of the lattice points of the
\* inclusive box between the entry's corners, whichever corner is the
\* greater on each axis (a Voxel is the box of one point).
C7_VolumeIsInclusiveBox ==
    (inp.fam = "vox" /\ Parsed) =>
        /\ pc = "done"
        /\ Len(res.v.items) = 1
        /\ ParsedItem.embed_voxels =
              UNION {InclusiveBox(inp.entries[j].p1, inp.entries[j].p2) : j \in DOMAIN inp.entries}

\* Pos1 "1 1 0" and Pos2 "0 0 0" have given the four points of the square.
C7_Witness ==
    /\ inp.fam = "vox"
    /\ Len(inp.entries) = 1
    /\ inp.entries[1] = [kind |-> "volume", p1 |-> Coord(1, 1, 0), p2 |-> Coord(0, 0, 0)]
    /\ pc = "done"
    /\ ParsedItem.embed_voxels = {Coord(0, 0, 0), Coord(1, 0, 0), Coord(0, 1, 0), Coord(1, 1, 0)}

\* The declarations of an input of the family "dup" with the identifier of
\* the j-th, case ignored.
SameId(ids, j) == {k \in DOMAIN ids : upper(ids[k]) = upper(ids[j])}
RedeclaredWarnings == {i \in DOMAIN res.log : res.log[i][1] = "Item redeclared!"}

\* C8: items whose identifiers are equal when case is ignored do not make
\* the parse fail: the mapping returned has one entry for the identifier,
\* under its upper-case form, holding the item declared last, and one
\* warning is logged for each redeclaration.
C8_RedeclarationLastWins ==
    (inp.fam = "dup" /\ Parsed) =>
        /\ pc = "done"
        /\ DictKeys(res.v.items) = {upper(inp.ids[j]) : j \in DOMAIN inp.ids}
        /\ Len(res.v.items) = Cardinality(DictKeys(res.v.items))
        /\ \A j \in DOMAIN inp.ids :
              (\A k \in SameId(inp.ids, j) : k <= j) =>
                  DictGet(res.v.items, upper(inp.ids[j])).targetname = FileN("decl", j, "")
        /\ Cardinality(RedeclaredWarnings) = Len(inp.ids) - Cardinality(DictKeys(res.v.items))

\* item_x has been declared three times, in three letter cases.
C8_Witness ==
    /\ inp.fam = "dup"
    /\ Len(inp.ids) = 3
    /\ Cardinality(SameId(inp.ids, 1)) = 3
    /\ Cardinality({inp.ids[j] : j \in DOMAIN inp.ids}) = 3
    /\ pc = "done"
    /\ Len(res.v.items) = 1
    /\ Cardinality(RedeclaredWarnings) = 2

\* C9: an exception ends the parse of the whole document: nothing is
\* returned, not even the items parsed before it, and the outcome is that of
\* the parse of the tokens consumed so far alone, so that no token after the
\* failure has been read.
C9_FatalErrorAbortsAll ==
    pc = "failed" =>
        /\ res.exc # ""
        /\ res.v = NoDocument
        /\ res.pos <= Len(toks) + 1
        /\ Item_parse(SubSeq(toks, 1, Min(res.pos, Len(toks)))) = res

\* The parse has failed after an item was parsed, with tokens left unread.
C9_Witness ==
    /\ inp.fam = "unknown"
    /\ inp.ctx = "item"
    /\ pc = "failed"
    /\ res.pos > Len(ItemDataOpen) + Len(PlainItemText(Str("item_a", UPPER), Str("first", LOWER)))
    /\ res.pos < Len(toks)
    /\ res.v.items = <<>>

\* The depth of braces open after the first n tokens of the full document.
BraceDepth(n) ==
    Cardinality({i \in 1 .. n : FullDoc[i].t = Token_BRACE_OPEN})
    - Cardinality({i \in 1 .. n : FullDoc[i].t = Token_BRACE_CLOSE})
\* The cut falls inside the Item block.
CutInItem == inp.fam = "trunc" /\ ItemBlockStart <= inp.cut /\ inp.cut <= ItemBlockEnd
\* The cut falls where the loop of parse_one reads the next key: directly
\* inside the Item block, after a line that opens or closes a block.
CutAtItemKey ==
    /\ CutInItem
    /\ BraceDepth(inp.cut) = 2
    /\ FullDoc[inp.cut] = NL
    /\ FullDoc[inp.cut - 1].t \in {Token_BRACE_OPEN, Token_BRACE_CLOSE}
\* The first token of the value of the unknown key of the Exporting block.
SkippedStart == 2 + CHOOSE n \in DOMAIN FullDoc : FullDoc[n] = K("inputs")

TruncatedInputFailed ==
    CutInItem =>
        /\ pc = "failed"
        /\ res.exc = TokenizerError
        /\ res.v = NoDocument
        /\ CutAtItemKey => res.msg = "File ended without closing item block!"

\* How far the parse has got: the stage, and in the loop over the ItemData
\* block the tokens consumed.
Stage ==
    CASE pc = "export" -> 0
      [] pc = "header" -> 1
      [] pc = "keys" -> 2
      [] pc = "done" -> 3
      [] pc \in {"failed", "end", "idle"} -> 4

\* C10: the parse of a document ends: every step either leaves its stage
\* for a later one or, in the loop over the ItemData block, consumes at
\* least one of the finitely many tokens; and it ends with a TokenizerError
\* and no document when the tokens end inside the Item block: in the block
\* itself, in a block nested in it, or in the value of an unknown Exporting
\* key that is being skipped.
C10_ParseTerminates ==
    [][/\ \/ Stage' > Stage
          \/ pc = "keys" /\ pc' = "keys" /\ res'.pos > res.pos
       /\ res'.pos <= Len(toks') + 1
       /\ Parsed' => TruncatedInputFailed']_vars

\* The tokens ended in the nested block of a skipped Exporting key, and the
\* parse has failed.
C10_Witness ==
    /\ inp.fam = "trunc"
    /\ inp.cut = SkippedStart + 8
    /\ BraceDepth(inp.cut) = 5
    /\ pc = "failed"
    /\ res.pos >= inp.cut

\* C11: every item the parser returns has a non-empty identifier, the key it
\* is stored under, set by the one Type key of its block: an Item block
\* parses only when it has exactly one Type key with a non-empty value; a
\* second Type key, an empty value and a block closed without a Type each
\* end the parse with a TokenizerError.
C11_IdSetOnce ==
    /\ \A i \in DOMAIN res.v.items :
          res.v.items[i][2].id # EmptyStr /\ res.v.items[i][1] = res.v.items[i][2].id
    /\ (inp.fam = "type" /\ Parsed) =>
          IF Len(inp.types) = 1 /\ inp.types[1] # EmptyStr
          THEN pc = "done" /\ Len(res.v.items) = 1 /\ ParsedItem.id = upper(inp.types[1])
          ELSE /\ pc = "failed"
               /\ res.exc = TokenizerError
               /\ res.msg = IF inp.types = <<>> THEN "No item ID (Type) set!"
                            ELSE IF inp.types[1] = EmptyStr THEN "Invalid item ID (Type)"
                            ELSE "Item ID (Type) set multiple times!"

\* A second Type key, after a valid one, has ended the parse.
C11_Witness ==
    /\ inp.fam = "type"
    /\ inp.types = <<Str("item_a", LOWER), Str("item_b", UPPER)>>
    /\ pc = "failed"
    /\ res.msg = "Item ID (Type) set multiple times!"

\* The places of a text where the key stands, and the values after them.
KeyPlaces(text, key) == {i \in 1 .. Len(text) - 1 : text[i] = K(key)}
\* The surfaces named by the InvalidSurface keys of an input.
SurfNamed(keys) == UNION {keys[j].members : j \in DOMAIN keys}
\* Their canonical values in ascending alphabetical order.
SurfAlphabetical(set) ==
    (IF "CEIL" \in set THEN <<Name("ceiling", UPPER)>> ELSE <<>>)
    \o (IF "FLOOR" \in set THEN <<Name("floor", UPPER)>> ELSE <<>>)
    \o (IF "WALL" \in set THEN <<Name("wall", UPPER)>> ELSE <<>>)

\* C12: whatever the order, the repetitions and the alias spellings of the
\* surface names under the InvalidSurface keys of an item, the text written
\* for the item has no InvalidSurface line when no surface was named, and
\* otherwise one line, listing each surface named once, by its canonical
\* value, in ascending alphabetical order.
C12_InvalidSurfaceSorted ==
    /\ (inp.fam = "surf" /\ Parsed) => pc # "failed"
    /\ (inp.fam = "surf" /\ pc = "end") =>
          LET places == KeyPlaces(text1, "invalidsurface")
              named == SurfNamed(inp.keys)
          IN IF named = {} THEN places = {}
             ELSE /\ Cardinality(places) = 1
                  /\ \A i \in places : text1[i + 1] = S(SurfAlphabetical(named))

\* "WALL FLOOR" has been written back as "FLOOR WALL".
C12_Witness ==
    /\ inp.fam = "surf"
    /\ Len(inp.keys) = 1
    /\ inp.keys[1].text = <<Name("wall", UPPER), Name("floor", UPPER)>>
    /\ pc = "end"
    /\ \E i \in KeyPlaces(text1, "invalidsurface") :
          text1[i + 1] = S(<<Name("floor", UPPER), Name("wall", UPPER)>>)

\* C13: an Item block with a Type, MovementHandle HANDLE_NONE, OccupiesVoxel
\* 1 and an empty Exporting block parses to one item with that identifier
\* and the defaults: class UNCLASSED, handle NONE, occupies_voxel true, no
\* subtypes, no properties, no instances, offset (64, 64, 64), no connection
\* points on any of the four sides, no embedded voxels.
C13_MinimalItemDefaults ==
    (inp.fam = "min" /\ Parsed) =>
        /\ pc = "done"
        /\ Len(res.v.items) = 1
        /\ res.v.items[1][1] = Str("item_test", UPPER)
        /\ ParsedItem.id = Str("item_test", UPPER)
        /\ ParsedItem.cls = "UNCLASSED"
        /\ ParsedItem.handle = "NONE"
        /\ ParsedItem.occupies_voxel = TRUE
        /\ ParsedItem.subtypes = <<>>
        /\ ParsedItem.properties = <<>>
        /\ ParsedItem.instances = <<>>
        /\ ParsedItem.offset = <<64, 64, 64>>
        /\ DOMAIN ParsedItem.antline_points = {"LEFT", "RIGHT", "UP", "DOWN"}
        /\ \A side \in DOMAIN ParsedItem.antline_points : ParsedItem.antline_points[side] = <<>>
        /\ ParsedItem.embed_voxels = {}

\* The document of the spec's example has been parsed.
C13_Witness ==
    /\ inp.fam = "min"
    /\ inp.id = Str("item_test", UPPER)
    /\ inp.handle = Str("handle_none", UPPER)
    /\ pc = "done"
    /\ Len(res.v.items) = 1
    /\ ParsedItem.offset = <<64, 64, 64>>

\* The text written has a line with the key, and its value.
HasLine(text, key) == KeyPlaces(text, key) # {}
LineValue(text, key) == text[1 + CHOOSE i \in KeyPlaces(text, key) : TRUE].v
\* The text of an item of the family "flags" has been written.
FlagsWritten == inp.fam = "flags" /\ pc # "export"

\* C14 as claimed: each of the six flags defaults to false, and its line is
\* written exactly when the flag is true.
C14_FlagsWrittenWhenTrue ==
    FlagsWritten =>
          /\ \A a \in FlagAttrs : Item(EmptyStr, "UNCLASSED")[a] = FALSE
          /\ HasLine(text0, "cananchorongoo") <=> inp.item.anchor_goo
          /\ HasLine(text0, "cananchoronbarriers") <=> inp.item.anchor_barriers
          /\ HasLine(text0, "occupiesvoxel") <=> inp.item.occupies_voxel
          /\ HasLine(text0, "copyable") <=> inp.item.copiable
          /\ HasLine(text0, "deletable") <=> inp.item.deletable
          /\ HasLine(text0, "pseudohandle") <=> inp.item.pseduo_handle

\* C14 amended: CanAnchorOnGoo, CanAnchorOnBarriers and PseudoHandle default
\* to false and are written, as 1, only when true; Copyable and Deletable
\* default to true and are written, as 0, only when false; OccupiesVoxel
\* defaults to true and is always written, once, as 1 or 0.
C14_FlagsWrittenWhenNotDefault ==
    FlagsWritten =>
          /\ \A a \in {"anchor_goo", "anchor_barriers", "pseduo_handle"} : Item(EmptyStr, "UNCLASSED")[a] = FALSE
          /\ \A a \in {"occupies_voxel", "copiable", "deletable"} : Item(EmptyStr, "UNCLASSED")[a] = TRUE
          /\ HasLine(text0, "cananchorongoo") <=> inp.item.anchor_goo
          /\ HasLine(text0, "cananchoronbarriers") <=> inp.item.anchor_barriers
          /\ HasLine(text0, "pseudohandle") <=> inp.item.pseduo_handle
          /\ HasLine(text0, "copyable") <=> ~inp.item.copiable
          /\ HasLine(text0, "deletable") <=> ~inp.item.deletable
          /\ \A k \in {"cananchorongoo", "cananchoronbarriers", "pseudohandle"} :
                HasLine(text0, k) => LineValue(text0, k) = IntStr(1)
          /\ \A k \in {"copyable", "deletable"} :
                HasLine(text0, k) => LineValue(text0, k) = IntStr(0)
          /\ Cardinality(KeyPlaces(text0, "occupiesvoxel")) = 1
          /\ LineValue(text0, "occupiesvoxel") = IF inp.item.occupies_voxel THEN IntStr(1) ELSE IntStr(0)

\* An item that cannot be copied and does not occupy its voxel has been
\* written with Copyable 0 and OccupiesVoxel 0.
C14_Witness ==
    /\ FlagsWritten
    /\ inp.on = {"deletable"}
    /\ HasLine(text0, "copyable")
    /\ LineValue(text0, "copyable") = IntStr(0)
    /\ LineValue(text0, "occupiesvoxel") = IntStr(0)
    /\ ~HasLine(text0, "deletable")

\* The models of the first subtype of the item parsed, and its icon.
ParsedModels == ParsedItem.subtypes[1].models
ParsedIcon == ParsedItem.subtypes[1].pal_icon

\* C15: a model reference, whatever its suffix in the input and whether it
\* is a bare name or the ModelName of a block, is held with the suffix mdl,
\* is written with the suffix 3ds, and parses back from the text written to
\* the same path; the icon of a palette entry is written with the suffix
\* png and parses back from the text written to the path it had.
C15_ExtensionSwapRoundTrips ==
    /\ (inp.fam \in {"model", "icon"} /\ Parsed) => pc # "failed" /\ Len(res.v.items) = 1
    /\ (inp.fam = "model" /\ pc \in {"done", "end"}) =>
          ParsedModels = <<File("cube", "mdl")>>
    /\ (inp.fam = "model" /\ pc = "end") =>
          /\ \A i \in KeyPlaces(text1, "modelname") : text1[i + 1] = S(File("cube", "3ds"))
          /\ KeyPlaces(text1, "modelname") # {}
          /\ Item_parse(Tokenize(text1)).v.items[1][2].subtypes[1].models = ParsedModels
    /\ (inp.fam = "icon" /\ pc # "export") =>
          LineValue(text0, "image") = File("palette/cube", "png")
    /\ (inp.fam = "icon" /\ pc = "done") =>
          ParsedIcon = inp.item.subtypes[1].pal_icon

\* C16: a value that is no integer, for a property Index, a connection point
\* Priority or GroupID, an overlay Rotation, an instance count or an
\* animation index, or that is no vector of three numbers, for an Offset, a
\* Center or a Dimensions, ends the parse with a TokenizerError; a value is
\* never replaced by a default.
C16_MalformedNumberIsFatal ==
    (inp.fam = "num" /\ Parsed) =>
        IF inp.lit \in WellFormed(inp.field)
        THEN pc = "done"
        ELSE pc = "failed" /\ res.exc = TokenizerError

\* The side a Dir value denotes: a side's name, or one of the four flat unit
\* vectors; "" for any other value.
DirSide(i) ==
    IF i.kind = "name"
    THEN CASE i.name = "left" -> "LEFT" [] i.name = "right" -> "RIGHT"
           [] i.name = "up" -> "UP" [] i.name = "down" -> "DOWN" [] OTHER -> ""
    ELSE IF i.kind = "vec" /\ i.z = 0
    THEN CASE i.x = 1 /\ i.y = 0 -> "LEFT" [] i.x = -1 /\ i.y = 0 -> "RIGHT"
           [] i.x = 0 /\ i.y = 1 -> "UP" [] i.x = 0 /\ i.y = -1 -> "DOWN" [] OTHER -> ""
    ELSE ""
\* The vector written for a side.
SideVector(side) ==
    CASE side = "LEFT" -> Ints3(1, 0, 0) [] side = "RIGHT" -> Ints3(-1, 0, 0)
      [] side = "UP" -> Ints3(0, 1, 0) [] side = "DOWN" -> Ints3(0, -1, 0)

\* C17: the Dir of a connection point is accepted exactly when it is the
\* name of a side, in any letter case, or one of the four flat unit vectors,
\* and the point goes to that side; any other value ends the parse with a
\* TokenizerError; and the vector written for the side parses back to it.
C17_DirAcceptedExactly ==
    /\ (inp.fam = "dir" /\ Parsed) =>
          IF DirSide(inp) = ""
          THEN pc = "failed" /\ res.exc = TokenizerError
          ELSE /\ pc \in {"done", "end"}
               /\ Len(res.v.items) = 1
               /\ \A side \in {"LEFT", "RIGHT", "UP", "DOWN"} :
                     Len(ParsedItem.antline_points[side]) = IF side = DirSide(inp) THEN 1 ELSE 0
    /\ (inp.fam = "dir" /\ pc = "end") =>
          /\ LineValue(text1, "dir") = SideVector(DirSide(inp))
          /\ Item_parse(Tokenize(text1)).v.items[1][2].antline_points = ParsedItem.antline_points

\* The side named "Right" has been written as "-1 0 0".
C17_Witness ==
    /\ inp.fam = "dir"
    /\ inp.text = Str("right", MIXED)
    /\ pc = "end"
    /\ Len(ParsedItem.antline_points["RIGHT"]) = 1
    /\ LineValue(text1, "dir") = Ints3(-1, 0, 0)

\* The places of the comments of a text, and the place where the j-th point
\* of the input has its Pos line.
CommentPlaces(text) == {p \in DOMAIN text : text[p].t = COMMENT}
PosPlaces(text, j) ==
    {p \in 1 .. Len(text) - 1 : text[p] = K("pos") /\ text[p + 1].v = Ints3(j, 0, 0)}
BlankPlaces(text) == {p \in 2 .. Len(text) : text[p] = NL /\ text[p - 1] = NL}
\* The side named by the last comment before a place.
SectionOf(text, p) ==
    LET c == CHOOSE c \in CommentPlaces(text) :
                c < p /\ \A d \in CommentPlaces(text) : d < p => d <= c
    IN text[c].v
UsedSides(i) == SelectSeq(<<"LEFT", "RIGHT", "UP", "DOWN">>,
                          LAMBDA side : \E j \in DOMAIN i.dirs : ConnSideNames[i.dirs[j]] = side)

\* C18: the points parsed in any interleaving of sides are written in
\* sections, in the order LEFT, RIGHT, UP, DOWN without the empty sides;
\* a section starts with a comment that names its side, one blank line
\* stands between two sections, and the points of a section keep the order
\* of the parse, whatever their priorities.
C18_PointsGroupedInOrder ==
    (inp.fam = "points" /\ pc = "end") =>
        /\ SelectSeq(text1, LAMBDA t : t.t = COMMENT)
              = [k \in DOMAIN UsedSides(inp) |-> Comment(UsedSides(inp)[k])]
        /\ \A j \in DOMAIN inp.dirs :
              /\ Cardinality(PosPlaces(text1, j)) = 1
              /\ \A p \in PosPlaces(text1, j) :
                    /\ SectionOf(text1, p) = Comment(ConnSideNames[inp.dirs[j]]).v
                    /\ text1[p + 6] = K("priority")
                    /\ text1[p + 7].v = IntStr(PointPriority(inp, j))
        /\ \A j, k \in DOMAIN inp.dirs :
              (j < k /\ inp.dirs[j] = inp.dirs[k]) =>
                  \A p \in PosPlaces(text1, j), q \in PosPlaces(text1, k) : p < q
        /\ \A c \in CommentPlaces(text1) :
              /\ text1[c - 1] = NL
              /\ IF \E d \in CommentPlaces(text1) : d < c
                 THEN text1[c - 2] = NL /\ text1[c - 3] # NL
                 ELSE text1[c - 2] # NL
        /\ Cardinality(BlankPlaces(text1)) = Len(UsedSides(inp)) - 1

\* Points parsed as DOWN, LEFT, DOWN with falling priorities have been
\* written in two sections.
C18_Witness ==
    /\ inp.fam = "points"
    /\ inp.dirs = <<"down", "left", "down">>
    /\ ~inp.rising
    /\ pc = "end"
    /\ Cardinality(CommentPlaces(text1)) = 2
    /\ Cardinality(BlankPlaces(text1)) = 1

\* The coordinate a thread's text denotes.
Denoted(t) == <<calls[t].value[1].n, calls[t].value[2].n, calls[t].value[3].n>>
Returning(t) == calls[t].pc \in {"return_cached", "return_result"}
\* Thread t's step is the insertion into the cache.
Inserts(t) == calls[t].pc = "insert" /\ calls'[t].pc = "return_result"

C19_ValuesEqual ==
    /\ \A t \in Threads : Returning(t) => calls[t].result = Some(Denoted(t))
    /\ \A k \in DOMAIN coord_cache : coord_cache[k] = k
C19_InsertOnce ==
    /\ \A t \in Threads :
          Inserts(t) =>
              /\ DOMAIN coord_cache' = DOMAIN coord_cache \cup {Denoted(t)}
              /\ Denoted(t) \in DOMAIN coord_cache => coord_cache' = coord_cache
    /\ coord_cache' # coord_cache => \E t \in Threads : Inserts(t)

\* C19: with Coord.parse running in several threads, under every
\* interleaving of the lookups and the insertions each call returns the
\* coordinate its text denotes, each entry of the cache maps a key to the
\* equal coordinate, and an insertion of a key that another thread has
\* inserted meanwhile leaves the cache as it was.
C19_CacheRaceSafe == []C19_ValuesEqual /\ [][C19_InsertOnce]_vars

\* Two threads have both missed the same coordinate and both inserted it.
C19_Witness ==
    /\ calls[1].pc = "return_result"
    /\ calls[2].pc = "return_result"
    /\ calls[1].value = calls[2].value
    /\ Denoted(1) \in DOMAIN coord_cache

\* The declarations of the input with a name for a label, those among them
\* without the prefix, and those with a number.
Named(i) == {j \in DOMAIN i.decls : ~i.decls[j].label.numbered}
Unprefixed(i) == {j \in Named(i) : ~i.decls[j].label.p}
Numbered(i) == DOMAIN i.decls \ Named(i)
\* The key of a named declaration: its label without the prefix.
CustKey(i, j) == Str("alt", i.decls[j].label.c)
\* The last declaration of a set.
LastOf(js) == CHOOSE j \in js : \A k \in js : k <= j

\* C20: a declaration labelled with a name leaves the numbered instances
\* alone and sets one entry of cust_instances, under the label without its
\* bee2_ prefix (in any letter case), or under the label as it is, with a
\* warning logged and no error; the entry holds the file only, not the
\* counts.
C20_NamedSlotsAreCustom ==
    (inp.fam = "cust" /\ Parsed) =>
        /\ pc = "done"
        /\ Len(res.v.items) = 1
        /\ ParsedItem.instances =
              IF Numbered(inp) = {} THEN <<>>
              ELSE LET j == LastOf(Numbered(inp)) IN
                   <<IF inp.decls[j].form = "scalar"
                     THEN InstCount(FileN("inst", j, "vmf"), 0, 0, 0)
                     ELSE InstCount(FileN("inst", j, "vmf"), j, j + 1, j + 2)>>
        /\ DictKeys(ParsedItem.cust_instances) = {CustKey(inp, j) : j \in Named(inp)}
        /\ Len(ParsedItem.cust_instances) = Cardinality({CustKey(inp, j) : j \in Named(inp)})
        /\ \A j \in Named(inp) :
              DictGet(ParsedItem.cust_instances, CustKey(inp, j))
                 = FileN("inst", LastOf({k \in Named(inp) : CustKey(inp, k) = CustKey(inp, j)}), "vmf")
        /\ Cardinality({n \in DOMAIN res.log : res.log[n] = PrefixWarning}) = Cardinality(Unprefixed(inp))

\* A slot 0 with counts and then BEE2_ALT with counts have been parsed: one
\* numbered instance, one custom instance under ALT.
C20_Witness ==
    /\ inp.fam = "cust"
    /\ Len(inp.decls) = 2
    /\ inp.decls[1] = [label |-> [numbered |-> TRUE, c |-> LOWER, p |-> FALSE], form |-> "block"]
    /\ inp.decls[2] = [label |-> [numbered |-> FALSE, c |-> UPPER, p |-> TRUE], form |-> "block"]
    /\ pc = "done"
    /\ Len(ParsedItem.instances) = 1
    /\ ParsedItem.cust_instances = <<<<Str("alt", UPPER), FileN("inst", 2, "vmf")>>>>

\* The lines of an "edflags" input with one of the two anchor keys, and the
\* lines with the PseudoHandle key.
AnchorLines(i) == {j \in DOMAIN i.lines : i.lines[j].key \in {"cananchoronbarriers", "cananchorongoo"}}
PseudoLines(i) == {j \in DOMAIN i.lines : i.lines[j].key = "pseudohandle"}

\* C21: CanAnchorOnBarriers and CanAnchorOnGoo both set anchor_barriers:
\* anchor_goo is false on every item the parser returns, and the last of
\* the two keys in an Editor block gives anchor_barriers its value.
C21_GooKeySetsBarriers ==
    /\ (Parsed /\ res.exc = "") =>
          \A n \in DOMAIN res.v.items : ~res.v.items[n][2].anchor_goo
    /\ (inp.fam = "edflags" /\ Parsed) =>
          /\ pc \in {"done", "end"}
          /\ Len(res.v.items) = 1
          /\ ParsedItem.anchor_barriers =
                IF AnchorLines(inp) = {} THEN FALSE
                ELSE inp.lines[LastOf(AnchorLines(inp))].on

\* CanAnchorOnBarriers 0 and then CanAnchorOnGoo 1 have been parsed.
C21_Witness ==
    /\ inp.fam = "edflags"
    /\ inp.lines = <<[key |-> "cananchoronbarriers", on |-> FALSE], [key |-> "cananchorongoo", on |-> TRUE]>>
    /\ pc = "done"
    /\ ParsedItem.anchor_barriers
    /\ ~ParsedItem.anchor_goo

\* C23: the PseudoHandle flag the parser reads is the one the writer
\* writes: an item parsed with PseudoHandle 1 is written with the line
\* PseudoHandle 1, and one parsed without the key, or with 0, is written
\* without a PseudoHandle line.
C23_PseudoHandleReadIsWritten ==
    (inp.fam = "edflags" /\ pc = "end") =>
        IF PseudoLines(inp) # {} /\ inp.lines[LastOf(PseudoLines(inp))].on
        THEN HasLine(text1, "pseudohandle") /\ LineValue(text1, "pseudohandle") = IntStr(1)
        ELSE ~HasLine(text1, "pseudohandle")

\* C22: the parser rejects an input with a TokenizerError and with nothing
\* else; a SubtypeProperty that names no property of the registry, like an
\* unknown key of the Properties block, ends the parse with that error.
C22_RejectedWithParseError ==
    /\ pc = "failed" => res.exc = TokenizerError
    /\ (inp.fam = "prop" /\ Parsed) =>
          IF inp.name = "bogus"
          THEN pc = "failed" /\ res.exc = TokenizerError
          ELSE pc = "done"

\* C24: the text written for an item with animations, its own or those of
\* a subtype, is accepted by the parser, and the item parsed has the same
\* animations, and each subtype the same animations and the same sounds.
C24_AnimationsSurvive ==
    (inp.fam = "rt" /\ inp.features \cap {"anims", "subanims"} # {} /\ Parsed) =>
        /\ pc # "failed"
        /\ Len(res.v.items) = 1
        /\ DictEq(ParsedItem.animations, inp.item.animations)
        /\ Len(ParsedItem.subtypes) = Len(inp.item.subtypes)
        /\ \A n \in DOMAIN inp.item.subtypes :
              /\ DictEq(ParsedItem.subtypes[n].anims, inp.item.subtypes[n].anims)
              /\ DictEq(ParsedItem.subtypes[n].sounds, inp.item.subtypes[n].sounds)

\* The boxes of a sequence, as a set.
BoxSet(bs) == {bs[i] : i \in DOMAIN bs}

\* C25: the boxes bounding_boxes emits for a set of points are the same
\* whichever point is popped as the seed at each turn.
C25_BoxesDeterministic ==
    todo = {} => \A other \in bounding_boxes(voxels) : BoxSet(other) = BoxSet(boxes)

\* C26: the boxes emitted for one set are pairwise disjoint and hold no
\* point still to be done, so that every point of the set lies in exactly
\* one box once todo is empty; every turn of the loop emits one box and
\* removes at least one point, so there are never more boxes than points.
C26_Disjoint ==
    /\ \A i, j \in DOMAIN boxes :
          i # j => BoxPoints(boxes[i][1], boxes[i][2]) \cap BoxPoints(boxes[j][1], boxes[j][2]) = {}
    /\ Covered \cap todo = {}
    /\ Covered \cup todo = voxels
    /\ Len(boxes) + Cardinality(todo) <= Cardinality(voxels)
C26_TurnRemoves ==
    /\ Len(boxes') = Len(boxes) + 1
    /\ todo' \subseteq todo
    /\ todo' # todo
C26_BoxesDisjointAndFew == []C26_Disjoint /\ [][C26_TurnRemoves]_vars

\* Four points around a corner have been decomposed into three boxes.
C26_Witness ==
    /\ voxels = {Coord(0, 0, 0), Coord(1, 0, 0), Coord(0, 1, 0), Coord(0, 0, 1)}
    /\ todo = {}
    /\ Len(boxes) = 3

\* C27: an instance declared under an integer, negative integers included,
\* is stored at the index that integer names and at no other, or the parse
\* ends with a TokenizerError; no other slot is overwritten and no other
\* exception ends the parse.
C27_SlotIsIndex ==
    (inp.fam = "slot" /\ Parsed) =>
        \/ pc = "failed" /\ res.exc = TokenizerError
        \/ /\ pc = "done"
           /\ Len(res.v.items) = 1
           /\ inp.slot >= 0
           /\ Len(ParsedItem.instances) > inp.slot
           /\ ParsedItem.instances[inp.slot + 1].inst = File("last", "vmf")
           /\ \A j \in 1 .. inp.pre :
                 j - 1 # inp.slot => ParsedItem.instances[j].inst = FileN("inst", j, "vmf")

\* C28: whenever the daemon's cancel arrives while a load screen is used
\* in a with statement, Cancelled does not leave the with statement.
C28_CancelStaysInWith ==
    (outcome.stmt = "with" /\ outcome.fresh) => outcome.exc # "Cancelled"

\* The reset of __exit__ has raised Cancelled, after a body that ended
\* without it.
C28_RaisedOnExit ==
    /\ outcome.stmt = "with" /\ outcome.fresh
    /\ outcome.at = "exit_reset"
    /\ outcome.exc = "Cancelled"

\* A cancel for a screen waits for it: its flag is set, or the message is
\* in the pipe.
PendingFor(s) ==
    SCREEN_CANCEL_FLAG[s] \/ \E n \in DOMAIN PIPE_MAIN_REC : PIPE_MAIN_REC[n] = <<"cancel", s>>
\* The step in which a _send_msg of screen s ends, and its raising Cancelled.
Checks(s) == frame.self = s /\ frame.phase = "poll" /\ PIPE_MAIN_REC = <<>> /\ frame' # frame
RaisesOn(s) ==
    /\ Checks(s)
    /\ outcome'.exc = "Cancelled" \/ (frame'.exc = "Cancelled" /\ frame.exc # "Cancelled")
C29_Pending == \A s \in Screens : since[s] > 0 <=> PendingFor(s)
C29_Step ==
    \A s \in Screens :
        /\ Checks(s) => (RaisesOn(s) <=> since[s] > 0)
        /\ since'[s] < since[s] => (RaisesOn(s) /\ since'[s] = 0)

\* C29 as claimed: after a cancel for S the next sending operation on S
\* raises Cancelled, once for each cancel; a cancel for S received while T
\* sends raises nothing on T and waits for S.
C29_OncePerCancel ==
    []C29_Pending /\ [][C29_Step /\ \A s \in Screens : RaisesOn(s) => since[s] = 1]_vars

\* C29: after a cancel for S the next sending operation on S raises
\* Cancelled, once for all the cancels sent for S since S last raised; a
\* cancel for S received while T sends raises nothing on T and waits for S.
C29_OncePerPendingCancel == []C29_Pending /\ [][C29_Step]_vars

\* Two cancels for S have been received while T was sending a step, which
\* ended without Cancelled; S's flag is set.
C29_Witness ==
    /\ outcome.stmt = "step" /\ outcome.self = "T" /\ outcome.exc = ""
    /\ PIPE_MAIN_REC = <<>>
    /\ SCREEN_CANCEL_FLAG["S"]
    /\ ~SCREEN_CANCEL_FLAG["T"]
    /\ since["S"] = 2

\* C30: while the body of surpress_screens runs, every screen that was
\* shown has been sent 'hide'; when the context has ended, by the body's
\* return or by its exception, every such screen has been sent 'show'
\* again and is active.
C30_ShownScreensSuppressed ==
    /\ (frame.stmt = "surpress" /\ frame.at = "body") =>
          \A s \in frame.shown : sent[s] = "hide"
    /\ outcome.stmt = "surpress" =>
          \A s \in outcome.shown : sent[s] = "show" /\ active[s]

====
